---- MODULE Spec2Model ----
(***************************************************************************)
(* JWT verification core of the widget backend:                            *)
(*   widget/backend/src/utils/jwt-verifier.ts   (JWKS cache, verifier)     *)
(*   widget/backend/src/middleware/auth.ts      (authenticateToken)        *)
(* The verifier delegates decoding and signature/claims validation to the  *)
(* jsonwebtoken package (jwt.decode, jwt.verify); both calls are modelled   *)
(* step by step as that package executes them.                             *)
(***************************************************************************)
EXTENDS Integers, Sequences, FiniteSets, TLC

(***************************************************************************)
(* Bounds of the model.                                                    *)
(***************************************************************************)
\* Wall clock at process start, in seconds since the epoch.
StartSec == 1000
\* Number of one-second clock ticks explored.
MaxTicks == 2

(***************************************************************************)
(* AUTH_CONFIG (shared/dist/auth-constants.js) and the cache TTL.          *)
(***************************************************************************)
ISSUER == "https://demo-app.auth.local/"
WIDGET_API_AUDIENCE == "https://widget-api.local/"
KEY_ID == "demo-key-1"
ALGORITHM == "RS256"
ttlMs == 60 * 60 * 1000

(***************************************************************************)
(* JSON values as they appear in token headers and payloads.  One record   *)
(* shape for every value, so values of different JSON types compare.       *)
(***************************************************************************)
Absent == [t |-> "absent", n |-> 0, s |-> ""]
Num(k) == [t |-> "num", n |-> k, s |-> ""]
Str(x) == [t |-> "str", n |-> 0, s |-> x]
\* The aud claim: a string or an array of strings.
AudStr(x) == [t |-> "str", items |-> <<x>>]
AudArr(xs) == [t |-> "arr", items |-> xs]

\* JavaScript truthiness of a JSON value (undefined, "" and 0 are falsy).
Truthy(v) ==
  \/ v.t = "str" /\ v.s # ""
  \/ v.t = "num" /\ v.n # 0

(***************************************************************************)
(* Keys.  A JWK is identified by its kid and carries RSA key material;     *)
(* material "K1" is the demo key pair, "K2" a key pair the issuer does not  *)
(* own.                                                                    *)
(***************************************************************************)
DEMO_JWK == [kid |-> KEY_ID, mat |-> "K1"]
DEMO_JWKS == [shape |-> "keys", keys |-> <<DEMO_JWK>>]
\* A 2xx body that is valid JSON but has no keys array.
ShapelessBody == [shape |-> "other", keys |-> <<>>]

(***************************************************************************)
(* Tokens: a string split on '.', each segment described by what the       *)
(* decoder can see in it.                                                  *)
(*   hdr.form  nonb64url : empty or holding a character outside            *)
(*                         [a-zA-Z0-9-_]                                   *)
(*             notjson   : base64 text that is no JSON document            *)
(*             falsy     : JSON null, 0, false or ""                       *)
(*             scalar    : any other JSON value that is no object          *)
(*             object    : a JSON object with the fields typ, alg, kid     *)
(*   pay.form  nonb64url, notjson, null, string, object                    *)
(*   sig.form  nonb64url, empty, b64url                                    *)
(*   sig.val   what the decoded signature bytes are, relative to this      *)
(*             token's signing input header.payload:                       *)
(*               <<"RS256", m>>  RSASSA-PKCS1-v1_5/SHA-256 by private key m*)
(*               <<"HS256", m>>  HMAC-SHA256 keyed with the PEM of public  *)
(*                               key m (algorithm confusion)               *)
(*               <<"bytes", m>>  the RS256 signature by m with a data bit  *)
(*                               flipped                                   *)
(*   sig.spare state of the unused low bits of the last base64url          *)
(*             character (0 as encoded by a signer)                        *)
(***************************************************************************)
NoFields == [typ |-> Absent, alg |-> Absent, kid |-> Absent]
HdrOf(form) == [form |-> form, f |-> NoFields]
HdrObj(typ, alg, kid) ==
  [form |-> "object", f |-> [typ |-> typ, alg |-> alg, kid |-> kid]]

NoClaims ==
  [iss |-> Absent, aud |-> [t |-> "absent", items |-> <<>>], exp |-> Absent,
   nbf |-> Absent, sub |-> Absent]
PayOf(form) == [form |-> form, obj |-> NoClaims]
PayObj(o) == [form |-> "object", obj |-> o]

SigOf(form) == [form |-> form, val |-> <<"bytes", "K1">>, spare |-> 0]
Signature(alg, m) == [form |-> "b64url", val |-> <<alg, m>>, spare |-> 0]

\* jose.SignJWT(payload).setProtectedHeader(header).sign(privateKey m)
SignJWT(hdr, obj, m) ==
  [nseg |-> 3, hdr |-> hdr, pay |-> PayObj(obj), sig |-> Signature("RS256", m)]

\* Every segment text a single flipped bit of the signature segment s can give:
\* a character that leaves the base64url alphabet, a flip in the unused low
\* bits of the last character, or a flip of a bit of the signature itself.
FlipBit(s) ==
  { [s EXCEPT !.form = "nonb64url"],
    [s EXCEPT !.spare = 1 - @],
    [s EXCEPT !.val = <<"bytes", @[2]>>] }

(***************************************************************************)
(* Errors: a class and a message, the message as its sequence of words so  *)
(* that String.prototype.includes is decided on the text.                  *)
(***************************************************************************)
Err(cls, msg) == [cls |-> cls, msg |-> msg]
NoErr == Err("none", <<>>)

\* msg.includes(needle), on whole words.
Includes(msg, needle) ==
  \E i \in 1..Len(msg) :
    /\ i + Len(needle) - 1 <= Len(msg)
    /\ SubSeq(msg, i, i + Len(needle) - 1) = needle

\* One word of message.toLowerCase().
LowerWord(w) ==
  CASE w = "Cannot" -> "cannot"
    [] w = "Key" -> "key"
    [] w = "JWKS" -> "jwks"
    [] OTHER -> w
ToLowerCase(msg) == [i \in 1..Len(msg) |-> LowerWord(msg[i])]

\* error instanceof jwt.JsonWebTokenError (both subclasses extend it).
IsJsonWebTokenError(e) ==
  e.cls \in {"JsonWebTokenError", "TokenExpiredError", "NotBeforeError"}

(***************************************************************************)
(* jwt.decode(token, {complete: true}) of jsonwebtoken, through jws.decode.*)
(***************************************************************************)
\* Variant: the segments are not counted (the text is only split, never matched).
IsValidJwsText_AnyCount(tok) ==
  /\ tok.hdr.form # "nonb64url"
  /\ tok.pay.form # "nonb64url"
  /\ tok.sig.form # "nonb64url"

\* JWS_REGEX: exactly three segments of base64url characters, the first two
\* not empty, the third possibly empty.
IsValidJwsText(tok) ==
  /\ tok.nseg = 3
  /\ tok.hdr.form # "nonb64url"
  /\ tok.pay.form # "nonb64url"
  /\ tok.sig.form # "nonb64url"

\* safeJsonParse of the header segment gives a truthy value.
HeaderParses(tok) == tok.hdr.form \in {"scalar", "object"}

Decoded(r, hdr, kind, obj) ==
  [r |-> r, header |-> hdr, payload |-> [kind |-> kind, obj |-> obj]]
NotDecoded(r) == Decoded(r, HdrOf("notjson"), "string", NoClaims)

\* r = "null": decode returns null; r = "throw": JSON.parse of the payload
\* throws a SyntaxError out of decode; r = "ok": {header, payload, signature}.
jwtDecode(tok) ==
  IF ~IsValidJwsText(tok) \/ ~HeaderParses(tok) THEN NotDecoded("null")
  ELSE IF tok.hdr.f.typ = Str("JWT")
    THEN \* jws.decode: payload = JSON.parse(payload)
         CASE tok.pay.form = "notjson" -> NotDecoded("throw")
           [] tok.pay.form = "null" -> Decoded("ok", tok.hdr, "null", NoClaims)
           [] tok.pay.form = "string" -> Decoded("ok", tok.hdr, "string", NoClaims)
           [] OTHER -> Decoded("ok", tok.hdr, "object", tok.pay.obj)
    ELSE \* jwt.decode: the payload stays a string unless it parses to an object
         IF tok.pay.form = "object"
           THEN Decoded("ok", tok.hdr, "object", tok.pay.obj)
           ELSE Decoded("ok", tok.hdr, "string", NoClaims)

(***************************************************************************)
(* jws.verify(token, alg, key): the signature check of algorithm alg with  *)
(* the public key of material m over header.payload.  The unused low bits  *)
(* of the last base64url character are dropped by the base64 decoder.      *)
(***************************************************************************)
\* Variant: the signature bytes are never compared.
jwsVerify_Unchecked(tok, alg, m) == tok.sig.form = "b64url"

jwsVerify(tok, alg, m) ==
  CASE alg = "RS256" -> tok.sig.form = "b64url" /\ tok.sig.val = <<"RS256", m>>
    [] alg = "HS256" -> tok.sig.form = "b64url" /\ tok.sig.val = <<"HS256", m>>
    [] alg = "none" -> tok.sig.form = "empty"
    [] OTHER -> FALSE

(***************************************************************************)
(* jwt.verify(token, publicKey, {algorithms, issuer, audience}) of         *)
(* jsonwebtoken, check by check in the order the package runs them.        *)
(***************************************************************************)
Verified(p) == [ok |-> TRUE, payload |-> p, err |-> NoErr]
Failed(cls, msg) ==
  [ok |-> FALSE, payload |-> [kind |-> "string", obj |-> NoClaims],
   err |-> Err(cls, msg)]

\* Variant: aud is compared as a single string.
AudienceMatches_StringOnly(p, audience) ==
  /\ p.kind = "object"
  /\ p.obj.aud.t = "str"
  /\ p.obj.aud.items[1] = audience

\* The aud check: some element of the token's aud equals the expected audience.
AudienceMatches(p, audience) ==
  /\ p.kind = "object"
  /\ \E i \in 1..Len(p.obj.aud.items) : p.obj.aud.items[i] = audience

\* payload.<name> of a decoded payload (undefined on a string payload).
Claim(p, name) == IF p.kind = "object" THEN p.obj[name] ELSE Absent

\* Variant: a token is expired only after its exp second has passed.
ValidateClaims_ExpInclusive(p, clockTimestamp, issuer, audience) ==
  IF p.kind = "null"
    THEN Failed("TypeError", <<"Cannot", "read", "properties", "of", "null">>)
  ELSE IF Claim(p, "nbf").t # "absent" /\ Claim(p, "nbf").t # "num"
    THEN Failed("JsonWebTokenError", <<"invalid", "nbf", "value">>)
  ELSE IF Claim(p, "nbf").t = "num" /\ Claim(p, "nbf").n > clockTimestamp
    THEN Failed("NotBeforeError", <<"jwt", "not", "active">>)
  ELSE IF Claim(p, "exp").t # "absent" /\ Claim(p, "exp").t # "num"
    THEN Failed("JsonWebTokenError", <<"invalid", "exp", "value">>)
  ELSE IF Claim(p, "exp").t = "num" /\ clockTimestamp > Claim(p, "exp").n
    THEN Failed("TokenExpiredError", <<"jwt", "expired">>)
  ELSE IF ~AudienceMatches(p, audience)
    THEN Failed("JsonWebTokenError",
                <<"jwt", "audience", "invalid.", "expected:", audience>>)
  ELSE IF Claim(p, "iss") # Str(issuer)
    THEN Failed("JsonWebTokenError",
                <<"jwt", "issuer", "invalid.", "expected:", issuer>>)
  ELSE Verified(p)

ValidateClaims(p, clockTimestamp, issuer, audience) ==
  IF p.kind = "null"
    THEN Failed("TypeError", <<"Cannot", "read", "properties", "of", "null">>)
  ELSE IF Claim(p, "nbf").t # "absent" /\ Claim(p, "nbf").t # "num"
    THEN Failed("JsonWebTokenError", <<"invalid", "nbf", "value">>)
  ELSE IF Claim(p, "nbf").t = "num" /\ Claim(p, "nbf").n > clockTimestamp
    THEN Failed("NotBeforeError", <<"jwt", "not", "active">>)
  ELSE IF Claim(p, "exp").t # "absent" /\ Claim(p, "exp").t # "num"
    THEN Failed("JsonWebTokenError", <<"invalid", "exp", "value">>)
  ELSE IF Claim(p, "exp").t = "num" /\ clockTimestamp >= Claim(p, "exp").n
    THEN Failed("TokenExpiredError", <<"jwt", "expired">>)
  ELSE IF ~AudienceMatches(p, audience)
    THEN Failed("JsonWebTokenError",
                <<"jwt", "audience", "invalid.", "expected:", audience>>)
  ELSE IF Claim(p, "iss") # Str(issuer)
    THEN Failed("JsonWebTokenError",
                <<"jwt", "issuer", "invalid.", "expected:", issuer>>)
  ELSE Verified(p)

\* Variant: the claims are validated before the signature is looked at.
jwtVerify_ClaimsFirst(tok, m, algorithms, issuer, audience, nowMs) ==
  LET d == jwtDecode(tok)
      v == ValidateClaims(d.payload, nowMs \div 1000, issuer, audience) IN
  IF tok.nseg # 3 THEN Failed("JsonWebTokenError", <<"jwt", "malformed">>)
  ELSE IF d.r = "throw"
    THEN Failed("SyntaxError", <<"Unexpected", "token", "in", "JSON">>)
  ELSE IF d.r = "null" THEN Failed("JsonWebTokenError", <<"invalid", "token">>)
  ELSE IF ~v.ok THEN v
  ELSE IF tok.sig.form = "empty"
    THEN Failed("JsonWebTokenError", <<"jwt", "signature", "is", "required">>)
  ELSE IF d.header.f.alg.t # "str" \/ d.header.f.alg.s \notin algorithms
    THEN Failed("JsonWebTokenError", <<"invalid", "algorithm">>)
  ELSE IF ~jwsVerify(tok, d.header.f.alg.s, m)
    THEN Failed("JsonWebTokenError", <<"invalid", "signature">>)
  ELSE v

jwtVerify(tok, m, algorithms, issuer, audience, nowMs) ==
  LET d == jwtDecode(tok) IN
  IF tok.nseg # 3 THEN Failed("JsonWebTokenError", <<"jwt", "malformed">>)
  ELSE IF d.r = "throw"
    THEN Failed("SyntaxError", <<"Unexpected", "token", "in", "JSON">>)
  ELSE IF d.r = "null" THEN Failed("JsonWebTokenError", <<"invalid", "token">>)
  ELSE IF tok.sig.form = "empty"
    THEN Failed("JsonWebTokenError", <<"jwt", "signature", "is", "required">>)
  ELSE IF d.header.f.alg.t # "str" \/ d.header.f.alg.s \notin algorithms
    THEN Failed("JsonWebTokenError", <<"invalid", "algorithm">>)
  ELSE IF ~jwsVerify(tok, d.header.f.alg.s, m)
    THEN Failed("JsonWebTokenError", <<"invalid", "signature">>)
  ELSE ValidateClaims(d.payload, nowMs \div 1000, issuer, audience)

(***************************************************************************)
(* getPublicKey, after fetchJWKS has returned jwks (lines 81-88).          *)
(***************************************************************************)
Key(m) == [ok |-> TRUE, pem |-> m, err |-> NoErr]
NoKey(cls, msg) == [ok |-> FALSE, pem |-> "", err |-> Err(cls, msg)]

\* kid as the message template prints it.
KidText(kid) == IF kid.t = "str" THEN kid.s ELSE "7"

\* Indexes of the keys k with k.kid === kid (a number never equals a string).
Matching(jwks, kid) ==
  { i \in 1..Len(jwks.keys) : kid.t = "str" /\ jwks.keys[i].kid = kid.s }

\* jwks.keys.find(...): the first match.
Find(jwks, kid) ==
  jwks.keys[CHOOSE i \in Matching(jwks, kid) :
              \A j \in Matching(jwks, kid) : i <= j]

\* jwkToPem(key): throws on a JWK whose n or e is missing or no string (material
\* "bad"); every other n and e is encoded into a PEM, also text that is the
\* modulus of no usable key (material "garbage").
jwkToPem(key) ==
  IF key.mat = "bad"
    THEN NoKey("TypeError", <<"Expected", "jwk.n", "to", "be", "a", "String">>)
    ELSE Key(key.mat)

getPublicKey(kid, jwks) ==
  IF jwks.shape # "keys"
    THEN NoKey("TypeError", <<"Cannot", "read", "properties", "of", "undefined">>)
  ELSE IF Matching(jwks, kid) = {}
    THEN NoKey("Error", <<"Key", "with", "kid", KidText(kid), "not", "found", "in", "JWKS">>)
  ELSE jwkToPem(Find(jwks, kid))

(***************************************************************************)
(* verifyAccessToken: outcomes and the two catch blocks.                   *)
(***************************************************************************)
ErrorCodes ==
  { "TOKEN_MISSING", "TOKEN_MALFORMED", "TOKEN_EXPIRED", "TOKEN_INVALID_SIGNATURE",
    "TOKEN_INVALID_ISSUER", "TOKEN_INVALID_AUDIENCE", "JWKS_FETCH_FAILED",
    "KEY_NOT_FOUND" }

NoPayload == [kind |-> "none", obj |-> NoClaims]
\* throw new TokenVerificationError(..., code)
Rejected(code) == [result |-> code, claims |-> NoPayload]
\* return verified
Accepted(p) == [result |-> "Accepted", claims |-> p]
\* An exception that is no TokenVerificationError leaves verifyAccessToken.
Uncaught(cls) == [result |-> cls, claims |-> NoPayload]
Pending == [result |-> "pending", claims |-> NoPayload]

\* Variant: an error of the key lookup is reported as a malformed token.
KeyErrorCode_Malformed(e) ==
  IF Includes(e.msg, <<"not", "found">>) THEN "KEY_NOT_FOUND" ELSE "TOKEN_MALFORMED"

\* catch of lines 151-161
KeyErrorCode(e) ==
  IF Includes(e.msg, <<"not", "found">>) THEN "KEY_NOT_FOUND" ELSE "JWKS_FETCH_FAILED"

\* catch of lines 173-209
VerifyErrorCode(e) ==
  IF e.cls = "TokenExpiredError" THEN "TOKEN_EXPIRED"
  ELSE IF IsJsonWebTokenError(e) /\ Includes(ToLowerCase(e.msg), <<"issuer">>)
    THEN "TOKEN_INVALID_ISSUER"
  ELSE IF IsJsonWebTokenError(e) /\ Includes(ToLowerCase(e.msg), <<"audience">>)
    THEN "TOKEN_INVALID_AUDIENCE"
  ELSE IF IsJsonWebTokenError(e) /\ Includes(ToLowerCase(e.msg), <<"signature">>)
    THEN "TOKEN_INVALID_SIGNATURE"
  ELSE "TOKEN_INVALID_SIGNATURE"

\* Lines 165-210: jwt.verify with the resolved key, at wall clock nowMs.
VerifyWithKey(tok, pem, nowMs) ==
  LET v == jwtVerify(tok, pem, {ALGORITHM}, ISSUER, WIDGET_API_AUDIENCE, nowMs) IN
  IF v.ok THEN Accepted(v.payload) ELSE Rejected(VerifyErrorCode(v.err))

\* Lines 81-88 and 150-210: what the call returns once fetchJWKS returned jwks.
ResolveAndVerify(tok, jwks, nowMs) ==
  LET k == getPublicKey(jwtDecode(tok).header.f.kid, jwks) IN
  IF k.ok THEN VerifyWithKey(tok, k.pem, nowMs) ELSE Rejected(KeyErrorCode(k.err))

\* Lines 129-145: "ok" when the header gave a kid to look up.
DecodeHeader(tok) ==
  LET d == jwtDecode(tok) IN
  IF d.r = "throw" THEN Uncaught("SyntaxError")
  ELSE IF d.r = "null" THEN Rejected("TOKEN_MALFORMED")
  ELSE IF ~Truthy(d.header.f.kid) THEN Rejected("TOKEN_MALFORMED")
  ELSE Pending

(***************************************************************************)
(* Inputs: the tokens a client may send and the ways a JWKS fetch may end. *)
(***************************************************************************)
UNKNOWN_KID == "rotated-key-9"
OTHER_ISSUER == "https://evil.example/"
OTHER_AUDIENCE == "https://other-api.local/"
SUBJECT == "auth0|test-user-001"

IssVals == {Str(ISSUER), Str(OTHER_ISSUER)}
AudVals ==
  { AudStr(WIDGET_API_AUDIENCE), AudStr(OTHER_AUDIENCE),
    AudArr(<<OTHER_AUDIENCE, WIDGET_API_AUDIENCE>>) }
ExpVals == {Absent, Str("never"), Num(StartSec + 1), Num(StartSec + 3600)}
NbfVals == {Absent, Str("soon"), Num(StartSec + 1)}

PayloadObjs ==
  { [iss |-> i, aud |-> a, exp |-> e, nbf |-> n, sub |-> Str(SUBJECT)] :
      i \in IssVals, a \in AudVals, e \in ExpVals, n \in NbfVals }

\* The access token the host application issues (generate-test-tokens.ts).
GoodClaims ==
  [iss |-> Str(ISSUER), aud |-> AudStr(WIDGET_API_AUDIENCE),
   exp |-> Num(StartSec + 3600), nbf |-> Absent, sub |-> Str(SUBJECT)]

\* Headers {typ: "JWT", alg, kid} with a string kid.
KidHeaders ==
  { HdrObj(Str("JWT"), Str(a), Str(k)) :
      a \in {"RS256", "HS256", "none"}, k \in {KEY_ID, UNKNOWN_KID} }

\* Headers that are no such object, or whose kid is no non-empty string.
OddHeaders ==
  { HdrOf(f) : f \in {"nonb64url", "notjson", "falsy", "scalar"} }
  \cup { HdrObj(t, Str("RS256"), k) :
           t \in {Str("JWT"), Absent}, k \in {Absent, Str(""), Num(7), Str(KEY_ID)} }

Signatures ==
  { Signature("RS256", "K1"), Signature("RS256", "K2"), Signature("HS256", "K1"),
    SigOf("empty") }
  \cup FlipBit(Signature("RS256", "K1"))

Token(h, p, s) == [nseg |-> 3, hdr |-> h, pay |-> p, sig |-> s]

\* A string with n '.'-separated segments whose first segment is h, such as
\* "not-a-jwt" (n = 1, h no JSON).
Segments(n, h) ==
  [nseg |-> n, hdr |-> h, pay |-> PayObj(GoodClaims), sig |-> Signature("RS256", "K1")]

OddPayloads == {PayOf(f) : f \in {"nonb64url", "notjson", "null", "string"}}

Tokens ==
  { Token(h, PayObj(o), s) : h \in KidHeaders, o \in PayloadObjs, s \in Signatures }
  \cup { Token(h, p, s) : h \in KidHeaders, p \in OddPayloads, s \in Signatures }
  \cup { Token(h, p, s) :
           h \in OddHeaders,
           p \in {PayObj(GoodClaims)} \cup OddPayloads,
           s \in {Signature("RS256", "K1"), SigOf("empty")} }
  \cup { Segments(n, h) :
           n \in {1, 2, 4},
           h \in {HdrOf("notjson"), HdrObj(Str("JWT"), Str("RS256"), Str(KEY_ID))} }

\* How `await fetch(JWKS_URI)` and `await response.json()` may end.
FetchOutcomes ==
  { [kind |-> "reject", err |-> Err("TypeError", <<"fetch", "failed">>), body |-> ShapelessBody],
    [kind |-> "status",
     err |-> Err("Error", <<"Failed", "to", "fetch", "JWKS:", "503", "Service", "Unavailable">>),
     body |-> ShapelessBody],
    [kind |-> "status",
     err |-> Err("Error", <<"Failed", "to", "fetch", "JWKS:", "404", "not", "found">>),
     body |-> ShapelessBody],
    [kind |-> "badjson",
     err |-> Err("SyntaxError", <<"Unexpected", "token", "<", "in", "JSON">>),
     body |-> ShapelessBody],
    [kind |-> "json", err |-> NoErr, body |-> DEMO_JWKS],
    [kind |-> "json", err |-> NoErr, body |-> ShapelessBody] }

(***************************************************************************)
(* State.                                                                  *)
(***************************************************************************)
VARIABLES
  now,        \* Date.now(), in milliseconds
  jwksCache,  \* the module-level cache {jwks, fetchedAt}; ttlMs is constant
  calls,      \* the invocations of verifyAccessToken: position, locals and,
              \* once done, what the call saw (at: Date.now() when it ended;
              \* jwks: what fetchJWKS returned to it, NoJWKS if it was not
              \* called, FetchFailed if it threw; fetches: how often the
              \* call ran fetch(JWKS_URI))
  token,      \* the bearer token the client presents
  fetchLog    \* what the JWKS endpoint has seen: started, the Date.now() of
              \* the call that began the latest fetch; succeeded, the latest
              \* such time among the fetches that delivered a key set (0: none)

\* The API in front of the verifier (middleware/auth.ts, routes/feedback.ts).
VARIABLES
  requests,      \* per request slot: the request (Authorization header,
                 \* body), what authenticateToken set on it (user,
                 \* isAuthenticated, whether next() was called) and the
                 \* response (status, code, the feedback item it returned)
  feedbackStore  \* const feedbackStore: FeedbackItem[]

apiVars == <<requests, feedbackStore>>

\* The widget in the host page (widget-api, services/tokenValidator.ts,
\* stores/tokenStore.ts, api/client.ts).
VARIABLES
  widget         \* the module-level state of the widget's files, the active
                 \* interval timers and the pending getTokens promises, and
                 \* what the handler that ran last emitted

\* The token store as its readers see it (stores/tokenStore.ts).
VARIABLES
  tokenStore     \* window.__WIDGET_TOKEN_STORE__: the tokens, the cached
                 \* snapshot with the tokens it was made from and the
                 \* expiration buffer; and what getSnapshot has returned

vars == <<now, jwksCache, calls, token, fetchLog, apiVars, widget, tokenStore>>

\* The requests the API receives: two, one after the other or the second
\* while the first awaits the JWKS fetch.
ApiCalls == {1, 2}

\* A slot no request has used yet.
NoRequest ==
  [phase |-> "none", header |-> <<>>, body |-> [rating |-> 0, comment |-> "", userId |-> ""],
   user |-> NoPayload, isAuthenticated |-> FALSE, nextCalled |-> FALSE,
   verifierCalled |-> FALSE, status |-> 0, code |-> "", feedback |-> 0]

\* No request has reached the API.
ApiIdle ==
  /\ requests = [c \in ApiCalls |-> NoRequest]
  /\ feedbackStore = <<>>

\* Tokens as the widget sees them: null, a JWT whose payload carries exp (in
\* seconds), and a string that is no JWT.
NullToken == [kind |-> "null", exp |-> 0]
Jwt(e) == [kind |-> "jwt", exp |-> e]
OpaqueToken == [kind |-> "opaque", exp |-> 0]

\* The validator's and the widget's currentConfig when null.
NoValidatorConfig ==
  [set |-> FALSE, getTokens |-> FALSE, tokenCheckInterval |-> 0, tokenExpirationBuffer |-> 0]
NoWidgetConfig ==
  [set |-> FALSE, target |-> FALSE, accessToken |-> NullToken, idToken |-> NullToken,
   getTokens |-> FALSE]

\* What a getTokens promise settles with.
NoResult == [kind |-> "none", accessToken |-> NullToken, idToken |-> NullToken]

\* The state before any call of the widget API.
WidgetStart ==
  [ validationTimerId |-> 0,            \* tokenValidator.ts 40; 0: null
    currentConfig |-> NoValidatorConfig, \* tokenValidator.ts 41
    isRefreshing |-> FALSE,             \* tokenValidator.ts 42
    timers |-> {},                      \* the active setInterval timers
    inFlight |-> 0,                     \* getTokens promises not yet settled
    accessToken |-> NullToken,          \* tokenStore: store.accessToken
    idToken |-> NullToken,              \* tokenStore: store.idToken
    apiAccessToken |-> NullToken,       \* api/client.ts currentAccessToken
    root |-> FALSE,                     \* widget-api 58: root !== null
    shadowContainer |-> FALSE,          \* #widget-shadow-root exists in the page
    config |-> NoWidgetConfig,          \* widget-api 60: currentConfig
    initAwaiting |-> NoWidgetConfig,    \* the config of an init that awaits injectStyles
    op |-> "none",                      \* the handler that ran last,
    result |-> NoResult,                \*   what it was resumed with,
    events |-> <<>>,                    \*   the events it emitted,
    called |-> 0,                       \*   its calls of getTokens
    threw |-> FALSE ]                   \*   and whether it ended in an exception

\* The widget API has not been called.
WidgetIdle == widget = WidgetStart

\* tokenStore.ts 68
DEFAULT_EXPIRATION_BUFFER_MS == 5 * 60 * 1000

\* No TokenState object: cachedSnapshot when null.  ref tells the objects
\* getSnapshot creates apart (its n-th object literal has ref n).
NoSnapshot ==
  [ref |-> 0, accessToken |-> NullToken, idToken |-> NullToken, user |-> FALSE,
   isAuthenticated |-> FALSE, isExpired |-> FALSE, tokenStatus |-> "", tokenTTL |-> 0]

\* The store when the module has been loaded (tokenStore.ts 71-81).
StoreStart ==
  [ accessToken |-> NullToken,
    idToken |-> NullToken,
    cachedSnapshot |-> NoSnapshot,
    lastAccessToken |-> NullToken,
    lastIdToken |-> NullToken,
    expirationBufferMs |-> DEFAULT_EXPIRATION_BUFFER_MS,
    created |-> 0,               \* TokenState objects created so far
    pending |-> "none",          \* what was done to the store since the latest
                                 \*   getSnapshot: none, mutated, changed (a token)
    returned |-> NoSnapshot,     \* what the latest getSnapshot returned,
    returnedAt |-> 0,            \*   the Date.now() of that call,
    between |-> "none",          \*   what was done since the call before it
    previous |-> NoSnapshot ]    \*   and what that call had returned

\* The store has not been used.
StoreIdle == tokenStore = StoreStart

\* jwksCache.jwks = null
NoJWKS == [shape |-> "null", keys |-> <<>>]

\* fetchJWKS threw: nothing was returned.
FetchFailed == [shape |-> "failed", keys |-> <<>>]

Calls == {1}

IdleCall ==
  [pc |-> "idle", tok |-> Segments(1, HdrOf("notjson")), now0 |-> 0, out |-> Pending,
   at |-> 0, jwks |-> NoJWKS, fetches |-> 0]

\* const jwksCache = { jwks: null, fetchedAt: 0, ... }
EmptyCache == [jwks |-> NoJWKS, fetchedAt |-> 0]

Init ==
  /\ now = StartSec * 1000
  /\ jwksCache = EmptyCache
  /\ calls = [c \in Calls |-> IdleCall]
  /\ token \in Tokens
  /\ fetchLog = [started |-> 0, succeeded |-> 0]
  /\ ApiIdle
  /\ WidgetIdle
  /\ StoreIdle

\* fetchJWKS lines 49-52: the cached JWKS is still valid at time t.
CacheValid(t) == jwksCache.jwks # NoJWKS /\ (t - jwksCache.fetchedAt) < ttlMs

\* The record of a call that has ended, at wall clock t, after n fetches.
Ended(tok, jwks, out, t, n) ==
  [pc |-> "done", tok |-> tok, now0 |-> 0, out |-> out, at |-> t, jwks |-> jwks,
   fetches |-> n]

\* Variant: a fetch that fails is tried again.
FetchThrew_Retry(call, o, t) == [call EXCEPT !.fetches = @ + 1]

\* fetch rejected, the status was not ok or response.json() rejected (57-63):
\* the error leaves fetchJWKS and getPublicKey and is caught at 151-161.
FetchThrew(call, o, t) ==
  Ended(call.tok, FetchFailed, Rejected(KeyErrorCode(o.err)), t, call.fetches)

\* Variant: the key set is replaced and fetchedAt is left as it was.
CacheAfterFetch_KeySetOnly(cache, o, t) ==
  IF o.kind = "json" THEN [jwks |-> o.body, fetchedAt |-> cache.fetchedAt] ELSE cache

\* Variant: a failed fetch empties the cache.
CacheAfterFetch_DropOnFailure(cache, o, t) ==
  IF o.kind = "json" THEN [jwks |-> o.body, fetchedAt |-> t] ELSE EmptyCache

\* The cache once the fetch a call began at its time t has settled as o:
\* written at 66-67 when both awaits resolved, otherwise not touched.
CacheAfterFetch(cache, o, t) ==
  IF o.kind = "json" THEN [jwks |-> o.body, fetchedAt |-> t] ELSE cache

(***************************************************************************)
(* verifyAccessToken(token), from its call to the first await that         *)
(* suspends it: decode (129-145), getPublicKey -> fetchJWKS (47-57); with  *)
(* a valid cache the call runs to its end (81-88, 165-210).                *)
(***************************************************************************)
VerifyBegin(c, tok) ==
  /\ calls[c].pc \in {"idle", "done"}
  /\ LET h == DecodeHeader(tok) IN
     IF h # Pending
       THEN /\ calls' = [calls EXCEPT ![c] = Ended(tok, NoJWKS, h, now, 0)]
            /\ UNCHANGED fetchLog
     ELSE IF CacheValid(now)
       THEN /\ calls' = [calls EXCEPT ![c] =
                 Ended(tok, jwksCache.jwks,
                       ResolveAndVerify(tok, jwksCache.jwks, now), now, 0)]
            /\ UNCHANGED fetchLog
     ELSE /\ calls' = [calls EXCEPT ![c] =
               [pc |-> "awaitFetch", tok |-> tok, now0 |-> now, out |-> Pending,
                at |-> 0, jwks |-> NoJWKS, fetches |-> 1]]
          /\ fetchLog' = [fetchLog EXCEPT !.started = now]
  /\ UNCHANGED <<now, jwksCache, token>>

(***************************************************************************)
(* The awaited fetch settles (57-69) and the call runs to its end.         *)
(***************************************************************************)
FetchSettles(c, o) ==
  /\ calls[c].pc = "awaitFetch"
  /\ jwksCache' = CacheAfterFetch(jwksCache, o, calls[c].now0)
  /\ IF o.kind = "json"
       THEN calls' = [calls EXCEPT ![c] =
              Ended(calls[c].tok, o.body,
                    ResolveAndVerify(calls[c].tok, o.body, now), now, calls[c].fetches)]
       ELSE calls' = [calls EXCEPT ![c] = FetchThrew(calls[c], o, now)]
  /\ fetchLog' =
       IF o.kind = "json" /\ o.body.shape = "keys" /\ calls[c].now0 > fetchLog.succeeded
         THEN [fetchLog EXCEPT !.succeeded = calls[c].now0]
         ELSE fetchLog
  /\ UNCHANGED <<now, token>>

\* One second passes.
Tick ==
  /\ now + 1000 <= (StartSec + MaxTicks) * 1000
  /\ now' = now + 1000
  /\ UNCHANGED <<jwksCache, calls, token, fetchLog, apiVars, widget, tokenStore>>

Next ==
  \/ \E c \in Calls : VerifyBegin(c, token) /\ UNCHANGED <<apiVars, widget, tokenStore>>
  \/ \E c \in Calls, o \in FetchOutcomes : FetchSettles(c, o) /\ UNCHANGED <<apiVars, widget, tokenStore>>
  \/ Tick

Spec == Init /\ [][Next]_vars

(***************************************************************************)
(* The cache over its lifetime: the same handlers, called concurrently     *)
(* (a second call may start while the first awaits its fetch), with the    *)
(* clock moving across the TTL and a JWKS endpoint that may rotate its     *)
(* keys or publish unusable ones.                                          *)
(***************************************************************************)
\* Number of TTL periods the clock runs through.
MaxHours == 1

\* The key set after a rotation: a second key pair under a new kid.
ROTATED_JWK == [kid |-> UNKNOWN_KID, mat |-> "K2"]
ROTATED_JWKS == [shape |-> "keys", keys |-> <<DEMO_JWK, ROTATED_JWK>>]
\* Key sets whose demo key has no usable material: n missing or no string, and
\* n a string that is the modulus of no key.
BROKEN_JWKS == [shape |-> "keys", keys |-> <<[kid |-> KEY_ID, mat |-> "bad"]>>]
GARBAGE_JWKS == [shape |-> "keys", keys |-> <<[kid |-> KEY_ID, mat |-> "garbage"]>>]

\* Claims of an access token that outlives the clock of this specification.
LongLivedClaims ==
  [GoodClaims EXCEPT !.exp = Num(StartSec + (MaxHours + 2) * (ttlMs \div 1000))]

\* Access tokens signed with the demo key and with the rotated key, a token
\* whose kid is a number, and a string that is no JWT.
DemoToken ==
  Token(HdrObj(Str("JWT"), Str(ALGORITHM), Str(KEY_ID)), PayObj(LongLivedClaims),
        Signature("RS256", "K1"))
RotatedToken ==
  Token(HdrObj(Str("JWT"), Str(ALGORITHM), Str(UNKNOWN_KID)), PayObj(LongLivedClaims),
        Signature("RS256", "K2"))
CacheTokens ==
  { DemoToken, RotatedToken,
    Token(HdrObj(Str("JWT"), Str(ALGORITHM), Num(7)), PayObj(LongLivedClaims),
          Signature("RS256", "K1")),
    Segments(1, HdrOf("notjson")) }

CacheFetchOutcomes ==
  FetchOutcomes
  \cup { [kind |-> "status",
          err |-> Err("Error", <<"Failed", "to", "fetch", "JWKS:", "404", "Not", "Found">>),
          body |-> ShapelessBody] }
  \cup { [kind |-> "json", err |-> NoErr, body |-> b] :
           b \in {ROTATED_JWKS, BROKEN_JWKS, GARBAGE_JWKS} }

\* Two requests may be in verifyAccessToken at once.
CacheCalls == {1, 2}

\* The instants the clock is read at: the start of each TTL period and the
\* millisecond after it.
ClockPoints ==
  { StartSec * 1000 + h * ttlMs + d : h \in 0..MaxHours, d \in {0, 1} }

CacheInit ==
  /\ now = StartSec * 1000
  /\ jwksCache = EmptyCache
  /\ calls = [c \in CacheCalls |-> IdleCall]
  /\ token \in CacheTokens
  /\ fetchLog = [started |-> 0, succeeded |-> 0]
  /\ ApiIdle
  /\ WidgetIdle
  /\ StoreIdle

\* Time passes, up to a later instant.
Advance ==
  /\ \E t \in ClockPoints : t > now /\ now' = t
  /\ UNCHANGED <<jwksCache, calls, token, fetchLog, apiVars, widget, tokenStore>>

CacheNext ==
  \/ \E c \in CacheCalls : VerifyBegin(c, token) /\ UNCHANGED <<apiVars, widget, tokenStore>>
  \/ \E c \in CacheCalls, o \in CacheFetchOutcomes : FetchSettles(c, o) /\ UNCHANGED <<apiVars, widget, tokenStore>>
  \/ Advance

CacheSpec == CacheInit /\ [][CacheNext]_vars

(***************************************************************************)
(* authenticateToken (middleware/auth.ts 68-100): the response to the      *)
(* outcome of verifyAccessToken; 0 stands for next() without a response.   *)
(***************************************************************************)
ResponseStatus(out) ==
  IF out.result = "Accepted" THEN 0
  ELSE IF out.result \in ErrorCodes THEN 401
  ELSE 500

(***************************************************************************)
(* The API in front of the verifier: app.use('/api', authenticateToken,    *)
(* feedbackRouter) (dist/index.js 66), middleware/auth.ts and              *)
(* routes/feedback.ts.                                                     *)
(***************************************************************************)
\* An Authorization header value is text: a sequence of spaces and of runs of
\* characters that are no space.  A run is a word or a credential (a token).
SP == [sp |-> TRUE, w |-> " ", jwt |-> Segments(1, HdrOf("notjson"))]
Word(w) == [sp |-> FALSE, w |-> w, jwt |-> Segments(1, HdrOf("notjson"))]
Credential(tok) == [sp |-> FALSE, w |-> "credential", jwt |-> tok]
\* The empty string.
EmptyText == [sp |-> FALSE, w |-> "", jwt |-> Segments(1, HdrOf("notjson"))]

\* authHeader.split(' '): one piece per space plus one; the piece between two
\* adjacent spaces, before a leading and after a trailing space is ''.
SpacesOf(h) == {i \in 1..Len(h) : h[i].sp}
Split(h) ==
  LET cuts == SpacesOf(h) \cup {0, Len(h) + 1}
      \* the k-th cut, counted from 0
      Cut(k) == CHOOSE i \in cuts : Cardinality({j \in cuts : j < i}) = k
  IN [k \in 1..(Cardinality(cuts) - 1) |->
        IF Cut(k) = Cut(k - 1) + 1 THEN EmptyText ELSE h[Cut(k - 1) + 1]]

\* The value of `token` at line 58: authHeader?.split(' ')[1]; undefined when
\* there is no header or no second piece.
Undefined == [sp |-> FALSE, w |-> "undefined", jwt |-> Segments(1, HdrOf("notjson"))]
NoHeader == <<>>
TokenOf(header) ==
  IF header = NoHeader THEN Undefined
  ELSE IF Len(Split(header)) < 2 THEN Undefined
  ELSE Split(header)[2]

\* !token (line 61): undefined or ''.
NoToken(header) == TokenOf(header) \in {Undefined, EmptyText}

\* The response of authenticateToken alone (68-100) and what it sets on the
\* request once verifyAccessToken has ended with out.
AuthDecision_NextAnyway(out) ==
  [status |-> ResponseStatus(out),
   code |-> IF out.result \in ErrorCodes THEN out.result ELSE "",
   next |-> TRUE,
   user |-> IF out.result = "Accepted" THEN out.claims ELSE NoPayload,
   isAuthenticated |-> out.result = "Accepted"]

AuthDecision(out) ==
  [status |-> ResponseStatus(out),
   code |-> IF out.result \in ErrorCodes THEN out.result ELSE "",
   next |-> out.result = "Accepted",
   user |-> IF out.result = "Accepted" THEN out.claims ELSE NoPayload,
   isAuthenticated |-> out.result = "Accepted"]

\* Lines 61-66: no token; the request goes on as anonymous.
Anonymous ==
  [status |-> 0, code |-> "", next |-> TRUE, user |-> NoPayload, isAuthenticated |-> FALSE]

\* routes/feedback.ts line 79: req.user?.sub || 'anonymous'
UserIdOf(user, body) ==
  IF user.kind # "none" /\ Truthy(user.obj.sub) THEN user.obj.sub.s ELSE "anonymous"

\* Line 80 throws a TypeError when req.user is set and its sub is no string:
\* req.user.sub.split is then no function.
UserNameThrows(user) == user.kind # "none" /\ user.obj.sub.t # "str"

\* Line 80: the name shown for the user, here the sub it is derived from.
UserNameOf(user) == IF user.kind = "none" THEN "Anonymous" ELSE user.obj.sub.s

\* POST /feedback (55-114) for a request with req.user = user: the response
\* status and the store afterwards.
PostFeedback(user, body, store) ==
  IF body.rating < 1 \/ body.rating > 5
    THEN [status |-> 400, store |-> store, feedback |-> 0]
  ELSE IF UserNameThrows(user)
    THEN [status |-> 500, store |-> store, feedback |-> 0]
  ELSE [status |-> 201,
        store |-> Append(store, [rating |-> body.rating, comment |-> body.comment,
                                 userId |-> UserIdOf(user, body),
                                 userName |-> UserNameOf(user)]),
        feedback |-> Len(store) + 1]

\* The request record once authenticateToken has decided d: with next() the
\* route handler runs and responds, without it the middleware has responded.
Responded(req, d, store) ==
  LET r == PostFeedback(d.user, req.body, store) IN
  [req EXCEPT !.phase = "responded",
              !.user = d.user,
              !.isAuthenticated = d.isAuthenticated,
              !.nextCalled = d.next,
              !.status = IF d.next THEN r.status ELSE d.status,
              !.code = d.code,
              !.feedback = IF d.next THEN r.feedback ELSE 0]
StoreAfter(req, d, store) ==
  IF d.next THEN PostFeedback(d.user, req.body, store).store ELSE store

\* A request as it reaches authenticateToken.
NewRequest(h, b) == [NoRequest EXCEPT !.header = h, !.body = b]

(***************************************************************************)
(* A POST /api/feedback request arrives: authenticateToken (51-101) up to  *)
(* its await, and all that follows when verifyAccessToken ends without     *)
(* waiting for a fetch.                                                    *)
(***************************************************************************)
Request(c, h, b) ==
  /\ requests[c].phase = "none"
  /\ IF NoToken(h)
       THEN /\ requests' = [requests EXCEPT ![c] =
                              Responded(NewRequest(h, b), Anonymous, feedbackStore)]
            /\ feedbackStore' = StoreAfter(NewRequest(h, b), Anonymous, feedbackStore)
            /\ UNCHANGED <<now, jwksCache, calls, token, fetchLog>>
       ELSE /\ VerifyBegin(c, TokenOf(h).jwt)
            /\ LET req == [NewRequest(h, b) EXCEPT !.verifierCalled = TRUE] IN
               IF calls'[c].pc = "done"
                 THEN /\ requests' = [requests EXCEPT ![c] =
                             Responded(req, AuthDecision(calls'[c].out), feedbackStore)]
                      /\ feedbackStore' =
                             StoreAfter(req, AuthDecision(calls'[c].out), feedbackStore)
                 ELSE /\ requests' = [requests EXCEPT ![c] =
                             [req EXCEPT !.phase = "verifying"]]
                      /\ UNCHANGED feedbackStore

(***************************************************************************)
(* The fetch a request's verification awaits settles: the rest of          *)
(* verifyAccessToken, of authenticateToken and, after next(), the route.   *)
(***************************************************************************)
RequestResumes(c, o) ==
  /\ requests[c].phase = "verifying"
  /\ FetchSettles(c, o)
  /\ requests' = [requests EXCEPT ![c] =
                    Responded(requests[c], AuthDecision(calls'[c].out), feedbackStore)]
  /\ feedbackStore' = StoreAfter(requests[c], AuthDecision(calls'[c].out), feedbackStore)

\* Inputs: tokens, Authorization headers and bodies of the requests.
OTHER_SUBJECT == "auth0|test-user-002"
WithSub(v) ==
  Token(HdrObj(Str("JWT"), Str(ALGORITHM), Str(KEY_ID)),
        PayObj([LongLivedClaims EXCEPT !.sub = v]), Signature("RS256", "K1"))
ExpiredToken ==
  Token(HdrObj(Str("JWT"), Str(ALGORITHM), Str(KEY_ID)),
        PayObj([LongLivedClaims EXCEPT !.exp = Num(StartSec - 1)]), Signature("RS256", "K1"))
NotAJwt == Segments(1, HdrOf("notjson"))

ApiTokens ==
  { DemoToken, WithSub(Str(OTHER_SUBJECT)), WithSub(Str("")), WithSub(Absent),
    ExpiredToken, NotAJwt }

\* "Bearer <token>"; the same with two spaces; a scheme without credentials;
\* Basic credentials; a bare token; and no header at all.
Headers ==
  { <<Word("Bearer"), SP, Credential(t)>> : t \in ApiTokens }
  \cup { <<Word("Bearer"), SP, SP, Credential(ExpiredToken)>>,
         <<Word("Bearer")>>,
         <<Word("Basic"), SP, Credential(NotAJwt)>>,
         <<Credential(DemoToken)>>,
         NoHeader }

\* Bodies {rating, comment} and one that also names a user; rating 0 stands
\* for every rating the handler refuses.
Bodies ==
  { [rating |-> 5, comment |-> "great", userId |-> ""],
    [rating |-> 4, comment |-> "", userId |-> "auth0|admin"],
    [rating |-> 0, comment |-> "", userId |-> ""] }

ApiFetchOutcomes == {o \in FetchOutcomes : o.kind = "reject" \/ o.body = DEMO_JWKS}

ApiInit ==
  /\ now = StartSec * 1000
  /\ jwksCache = EmptyCache
  /\ calls = [c \in ApiCalls |-> IdleCall]
  /\ token = DemoToken
  /\ fetchLog = [started |-> 0, succeeded |-> 0]
  /\ ApiIdle
  /\ WidgetIdle
  /\ StoreIdle

ApiNext ==
  \/ \E c \in ApiCalls, h \in Headers, b \in Bodies : Request(c, h, b) /\ UNCHANGED <<widget, tokenStore>>
  \/ \E c \in ApiCalls, o \in ApiFetchOutcomes : RequestResumes(c, o) /\ UNCHANGED <<widget, tokenStore>>

ApiSpec == ApiInit /\ [][ApiNext]_vars

(***************************************************************************)
(* The widget in the host page: the global API (widget-api: init,          *)
(* setTokens, clearTokens, destroy), the token validator                   *)
(* (services/tokenValidator.ts), the token store and the API client token. *)
(* `widget` holds the module-level state of these files and the browser's  *)
(* interval timers; each handler is a function of that state.              *)
(***************************************************************************)
DEFAULT_TOKEN_CHECK_INTERVAL == 60 * 1000
DEFAULT_TOKEN_EXPIRATION_BUFFER == 5 * 60 * 1000

\* utils/jwt-decoder.ts decodeToken: the payload, or null when the string
\* has no three parts or its payload does not parse.
decodeToken(tok) ==
  IF tok.kind = "jwt" THEN [ok |-> TRUE, exp |-> tok.exp] ELSE [ok |-> FALSE, exp |-> 0]

\* getTokenTTL: whole seconds until exp, never negative; 0 without claims.
getTokenTTL(tok, t) ==
  LET claims == decodeToken(tok)
      ttl == (claims.exp * 1000 - t) \div 1000
  IN IF ~claims.ok THEN 0 ELSE IF ttl > 0 THEN ttl ELSE 0

\* Variant: a token whose TTL equals the buffer counts as expiring.
checkTokenStatus_Inclusive(accessToken, bufferMs, t) ==
  LET ttlSeconds == getTokenTTL(accessToken, t) IN
  IF accessToken.kind = "null" THEN "expired"
  ELSE IF ttlSeconds <= 0 THEN "expired"
  ELSE IF ttlSeconds * 1000 <= bufferMs THEN "expiring"
  ELSE "valid"

\* tokenValidator.ts checkTokenStatus (51-71), at time t.
checkTokenStatus(accessToken, bufferMs, t) ==
  LET ttlSeconds == getTokenTTL(accessToken, t) IN
  IF accessToken.kind = "null" THEN "expired"
  ELSE IF ttlSeconds <= 0 THEN "expired"
  ELSE IF ttlSeconds * 1000 < bufferMs THEN "expiring"
  ELSE "valid"

\* A WidgetConfig: whether #targetId exists in the page, the initial tokens
\* and whether a getTokens callback is given; onEvent is given, the
\* intervals are left to their defaults.
WidgetConfig(target, accessToken, idToken, getTokens) ==
  [set |-> TRUE, target |-> target, accessToken |-> accessToken, idToken |-> idToken,
   getTokens |-> getTokens]

\* The TokenValidatorConfig the widget API builds from a WidgetConfig
\* (widget-api 174-179, 227-232, 266-271).
ValidatorConfigOf(config) ==
  [set |-> TRUE, getTokens |-> config.getTokens,
   tokenCheckInterval |-> DEFAULT_TOKEN_CHECK_INTERVAL,
   tokenExpirationBuffer |-> DEFAULT_TOKEN_EXPIRATION_BUFFER]

\* A handler begins: nothing emitted or called yet.
Enter(w, op) ==
  [w EXCEPT !.op = op, !.result = NoResult, !.events = <<>>, !.called = 0, !.threw = FALSE]

\* config.onEvent?.(event)
Emit(w, type, code) == [w EXCEPT !.events = Append(@, [type |-> type, code |-> code])]

\* setInterval: a timer with an id no active timer has.
SetInterval(timers) == CHOOSE i \in 1..(Cardinality(timers) + 1) : i \notin timers

\* Variant: the interval is left running.
ClearInterval_Leak(timers, id) == timers

\* clearInterval(id)
ClearInterval(timers, id) == timers \ {id}

\* tokenValidator.ts stopTokenValidation (189-197)
stopTokenValidation(w) ==
  [w EXCEPT !.timers = IF w.validationTimerId # 0
                         THEN ClearInterval(@, w.validationTimerId) ELSE @,
            !.validationTimerId = 0,
            !.currentConfig = NoValidatorConfig,
            !.isRefreshing = FALSE]

\* attemptTokenRefresh (76-91) up to its await: the call of getTokens.
attemptTokenRefresh(w) ==
  IF ~w.currentConfig.set \/ ~w.currentConfig.getTokens THEN w
  ELSE IF w.isRefreshing THEN w
  ELSE [w EXCEPT !.isRefreshing = TRUE, !.inFlight = @ + 1, !.called = @ + 1]

\* runValidationCheck (122-154) at time t, up to the await of the refresh;
\* getSnapshot().accessToken is the store's access token.
runValidationCheck(w, t) ==
  IF ~w.currentConfig.set THEN w
  ELSE LET status ==
             checkTokenStatus(w.accessToken, w.currentConfig.tokenExpirationBuffer, t)
       IN IF status = "expired" THEN Emit(w, "TOKENS_EXPIRED", "")
          ELSE IF status = "expiring"
            THEN attemptTokenRefresh(Emit(w, "TOKENS_EXPIRING_SOON", ""))
          ELSE w

\* startTokenValidation (165-184) at time t.
startTokenValidation(w, config, t) ==
  LET checked == runValidationCheck([stopTokenValidation(w) EXCEPT !.currentConfig = config], t)
      id == SetInterval(checked.timers)
  IN [checked EXCEPT !.validationTimerId = id, !.timers = @ \cup {id}]

\* attemptTokenRefresh after its await (93-116), resumed with what getTokens
\* settled with.  currentConfig is read again: when it has become null,
\* currentConfig.onEvent throws a TypeError in the try block and again in
\* the catch block; the finally block runs in every case.
refreshSettled(w, r) ==
  LET both == r.kind = "tokens" /\ r.accessToken.kind # "null" /\ r.idToken.kind # "null"
      got == IF both THEN [w EXCEPT !.accessToken = r.accessToken, !.idToken = r.idToken]
             ELSE w
      type == IF r.kind = "throws" THEN "ERROR"
              ELSE IF both THEN "TOKENS_REFRESHED"
              ELSE "TOKENS_EXPIRED"
      told == IF w.currentConfig.set
                THEN Emit(got, type, IF type = "ERROR" THEN "TOKEN_REFRESH_ERROR" ELSE "")
                ELSE [got EXCEPT !.threw = TRUE]
  IN [told EXCEPT !.isRefreshing = FALSE, !.inFlight = @ - 1, !.result = r]

\* widget-api init after the container was found and the styles are in place
\* (222-245): the React root, the validation timer, INITIALIZED.
initFinish(w, config, t) ==
  LET rooted == [w EXCEPT !.root = TRUE]
      started == IF config.accessToken.kind # "null"
                   THEN startTokenValidation(rooted, ValidatorConfigOf(config), t)
                   ELSE rooted
  IN Emit(started, "INITIALIZED", "")

\* Variant: the config and the tokens are stored before the container is
\* looked up.
init_StoreFirst(w, config, t) ==
  LET stored == [w EXCEPT !.config = config,
                          !.accessToken = config.accessToken,
                          !.idToken = config.idToken,
                          !.apiAccessToken = config.accessToken]
  IN IF w.root
       THEN Emit(startTokenValidation(stored, ValidatorConfigOf(config), t), "INITIALIZED", "")
     ELSE IF ~config.target
       THEN Emit(stored, "ERROR", "CONTAINER_NOT_FOUND")
     ELSE IF ~w.shadowContainer
       THEN [stored EXCEPT !.shadowContainer = TRUE, !.initAwaiting = config]
     ELSE initFinish(stored, config, t)

\* widget-api init (158-246) at time t, up to `await injectStyles` when the
\* styles have to be injected, to its end otherwise.
init(w, config, t) ==
  IF w.root
    THEN Emit(startTokenValidation(
                [w EXCEPT !.config = config,
                          !.accessToken = config.accessToken,
                          !.idToken = config.idToken,
                          !.apiAccessToken = config.accessToken],
                ValidatorConfigOf(config), t),
              "INITIALIZED", "")
  ELSE IF ~config.target
    THEN Emit(w, "ERROR", "CONTAINER_NOT_FOUND")
  ELSE LET stored == [w EXCEPT !.config = config,
                               !.accessToken = config.accessToken,
                               !.idToken = config.idToken,
                               !.apiAccessToken = config.accessToken]
       IN IF ~w.shadowContainer
            THEN [stored EXCEPT !.shadowContainer = TRUE, !.initAwaiting = config]
            ELSE initFinish(stored, config, t)

\* widget-api setTokens (251-275)
setTokens(w, accessToken, idToken, t) ==
  LET stored == [w EXCEPT !.apiAccessToken = accessToken,
                          !.accessToken = accessToken,
                          !.idToken = idToken]
  IN IF w.config.set
       THEN startTokenValidation(stored, ValidatorConfigOf(w.config), t)
       ELSE stored

\* widget-api clearTokens (280-290)
clearTokens(w) ==
  [w EXCEPT !.apiAccessToken = NullToken, !.accessToken = NullToken, !.idToken = NullToken]

\* widget-api destroy (295-318)
destroy(w) ==
  LET cleared == [stopTokenValidation(w) EXCEPT !.root = FALSE,
                                                !.accessToken = NullToken,
                                                !.idToken = NullToken,
                                                !.apiAccessToken = NullToken]
      told == IF w.config.set THEN Emit(cleared, "DESTROYED", "") ELSE cleared
  IN [told EXCEPT !.config = NoWidgetConfig]

\* forceTokenRefresh (203-209)
forceTokenRefresh(w) == IF ~w.currentConfig.set THEN w ELSE attemptTokenRefresh(w)

\* generate-test-tokens.ts 19-20: the lifetimes of the tokens the host issues.
ACCESS_TOKEN_EXPIRY_SECONDS == 3600
ID_TOKEN_EXPIRY_SECONDS == 86400

\* Inputs: the tokens of the session, issued at the start, and the ones a
\* refresh delivers, issued one access token lifetime later.
FirstToken == Jwt(StartSec + ACCESS_TOKEN_EXPIRY_SECONDS)
FreshToken == Jwt(StartSec + 2 * ACCESS_TOKEN_EXPIRY_SECONDS)
FirstIdToken == Jwt(StartSec + ID_TOKEN_EXPIRY_SECONDS)
FreshIdToken == Jwt(StartSec + ACCESS_TOKEN_EXPIRY_SECONDS + ID_TOKEN_EXPIRY_SECONDS)

WidgetConfigs ==
  { WidgetConfig(TRUE, FirstToken, FirstIdToken, g) : g \in BOOLEAN }
  \cup { WidgetConfig(TRUE, NullToken, NullToken, TRUE),
         WidgetConfig(FALSE, FirstToken, FirstIdToken, TRUE) }

\* What the host's getTokens settles with: a fresh pair, a pair without ID
\* token, null, or a rejection.
RefreshResults ==
  { [kind |-> "tokens", accessToken |-> FreshToken, idToken |-> FreshIdToken],
    [kind |-> "tokens", accessToken |-> FreshToken, idToken |-> NullToken],
    [kind |-> "null", accessToken |-> NullToken, idToken |-> NullToken],
    [kind |-> "throws", accessToken |-> NullToken, idToken |-> NullToken] }

\* The instants the widget's clock is read at, around the expiry E of the
\* first token: the start, E - buffer, the millisecond after, E minus less
\* than a second, and past E.
WidgetClock ==
  { StartSec * 1000,
    (StartSec + ACCESS_TOKEN_EXPIRY_SECONDS) * 1000 - DEFAULT_TOKEN_EXPIRATION_BUFFER,
    (StartSec + ACCESS_TOKEN_EXPIRY_SECONDS) * 1000 - DEFAULT_TOKEN_EXPIRATION_BUFFER + 1,
    (StartSec + ACCESS_TOKEN_EXPIRY_SECONDS) * 1000 - 999,
    (StartSec + ACCESS_TOKEN_EXPIRY_SECONDS) * 1000 + 1 }

\* getTokens promises followed at a time.
MaxInFlight == 2

(***************************************************************************)
(* The handlers as steps: the host calls the widget API, a timer fires, a  *)
(* suspended init or refresh resumes, time passes.                         *)
(***************************************************************************)
Backend == <<jwksCache, calls, token, fetchLog, apiVars>>

\* A handler that would start a getTokens call beyond those followed is
\* not taken.
Followed == widget'.inFlight <= MaxInFlight

WidgetInit(config) ==
  /\ widget' = init(Enter(widget, "init"), config, now)
  /\ Followed
  /\ UNCHANGED <<now, Backend>>

InitResumes ==
  /\ widget.initAwaiting.set
  /\ widget' = initFinish([Enter(widget, "initResumes") EXCEPT !.initAwaiting = NoWidgetConfig],
                          widget.initAwaiting, now)
  /\ Followed
  /\ UNCHANGED <<now, Backend>>

WidgetSetTokens(accessToken, idToken) ==
  /\ widget' = setTokens(Enter(widget, "setTokens"), accessToken, idToken, now)
  /\ Followed
  /\ UNCHANGED <<now, Backend>>

WidgetClearTokens ==
  /\ widget' = clearTokens(Enter(widget, "clearTokens"))
  /\ UNCHANGED <<now, Backend>>

WidgetDestroy ==
  /\ widget' = destroy(Enter(widget, "destroy"))
  /\ UNCHANGED <<now, Backend>>

\* An interval timer fires: runValidationCheck (181-183).
TimerFires(id) ==
  /\ id \in widget.timers
  /\ widget' = runValidationCheck(Enter(widget, "check"), now)
  /\ Followed
  /\ UNCHANGED <<now, Backend>>

ForceRefresh ==
  /\ widget' = forceTokenRefresh(Enter(widget, "forceTokenRefresh"))
  /\ Followed
  /\ UNCHANGED <<now, Backend>>

\* A getTokens promise settles with r.
GetTokensSettles(r) ==
  /\ widget.inFlight > 0
  /\ widget' = refreshSettled(Enter(widget, "refreshSettled"), r)
  /\ UNCHANGED <<now, Backend>>

\* Time passes, up to a later instant.
Pass ==
  /\ \E t \in WidgetClock : t > now /\ now' = t
  /\ UNCHANGED <<widget, Backend>>

WidgetSpecInit ==
  /\ now = StartSec * 1000
  /\ jwksCache = EmptyCache
  /\ calls = [c \in Calls |-> IdleCall]
  /\ token = DemoToken
  /\ fetchLog = [started |-> 0, succeeded |-> 0]
  /\ ApiIdle
  /\ WidgetIdle
  /\ StoreIdle

WidgetNext ==
  \/ \E config \in WidgetConfigs : WidgetInit(config) /\ UNCHANGED tokenStore
  \/ InitResumes /\ UNCHANGED tokenStore
  \/ WidgetSetTokens(FreshToken, FreshIdToken) /\ UNCHANGED tokenStore
  \/ WidgetSetTokens(FirstToken, FirstIdToken) /\ UNCHANGED tokenStore
  \/ WidgetSetTokens(OpaqueToken, FirstIdToken) /\ UNCHANGED tokenStore
  \/ WidgetClearTokens /\ UNCHANGED tokenStore
  \/ WidgetDestroy /\ UNCHANGED tokenStore
  \/ \E id \in widget.timers : TimerFires(id) /\ UNCHANGED tokenStore
  \/ ForceRefresh /\ UNCHANGED tokenStore
  \/ \E r \in RefreshResults : GetTokensSettles(r) /\ UNCHANGED tokenStore
  \/ Pass /\ UNCHANGED tokenStore

WidgetSpec == WidgetSpecInit /\ [][WidgetNext]_vars

(***************************************************************************)
(* The token store (stores/tokenStore.ts) and its readers: React calls     *)
(* getSnapshot on every render and after every notification, the validator *)
(* calls it on every check.  Each function is a function of the store; a   *)
(* listener that emitChange calls reads the store after the cache has been *)
(* dropped, which is a getSnapshot call after the mutation.                *)
(***************************************************************************)
\* decodeUser (90-108): whether it returns a user, which it does when there
\* is an ID token and its payload decodes.
decodeUser(s) == s.idToken.kind # "null" /\ decodeToken(s.idToken).ok

\* emitChange (110-117)
emitChange(s) == [s EXCEPT !.cachedSnapshot = NoSnapshot]

\* calculateTokenStatus (126-147) at time t.
calculateTokenStatus(accessToken, bufferMs, t) ==
  LET ttlSeconds == getTokenTTL(accessToken, t) IN
  IF accessToken.kind = "null" \/ ttlSeconds <= 0
    THEN [status |-> "expired", ttl |-> 0, isExpired |-> TRUE]
  ELSE IF ttlSeconds * 1000 < bufferMs
    THEN [status |-> "expiring", ttl |-> ttlSeconds, isExpired |-> FALSE]
  ELSE [status |-> "valid", ttl |-> ttlSeconds, isExpired |-> FALSE]

\* The TokenState object getSnapshot builds at time t (162-174).
TokenState(s, t) ==
  LET user == decodeUser(s)
      c == calculateTokenStatus(s.accessToken, s.expirationBufferMs, t)
  IN [ref |-> s.created + 1,
      accessToken |-> s.accessToken,
      idToken |-> s.idToken,
      user |-> user,
      isAuthenticated |-> s.accessToken.kind # "null" /\ user /\ ~c.isExpired,
      isExpired |-> c.isExpired,
      tokenStatus |-> c.status,
      tokenTTL |-> c.ttl]

\* A call of getSnapshot at time t has returned out.
Returns(s, out, t) ==
  [s EXCEPT !.previous = s.returned, !.returned = out, !.returnedAt = t,
            !.between = s.pending, !.pending = "none"]

\* Variant: a new object on every call.
getSnapshot_Uncached(s, t) ==
  LET made == TokenState(s, t)
  IN Returns([s EXCEPT !.cachedSnapshot = made,
                       !.lastAccessToken = s.accessToken,
                       !.lastIdToken = s.idToken,
                       !.created = @ + 1], made, t)

\* getSnapshot (154-179) at time t.
getSnapshot(s, t) ==
  IF /\ s.cachedSnapshot # NoSnapshot
     /\ s.lastAccessToken = s.accessToken
     /\ s.lastIdToken = s.idToken
    THEN Returns(s, s.cachedSnapshot, t)
    ELSE LET made == TokenState(s, t)
         IN Returns([s EXCEPT !.cachedSnapshot = made,
                              !.lastAccessToken = s.accessToken,
                              !.lastIdToken = s.idToken,
                              !.created = @ + 1], made, t)

\* A function that writes the store has run on `before`.
Written(s, before) ==
  [s EXCEPT !.pending = IF s.accessToken # before.accessToken \/ s.idToken # before.idToken
                          THEN "changed"
                          ELSE IF @ = "changed" THEN @ ELSE "mutated"]

\* setTokens (197-202), imported by the widget API as setStoreTokens
setStoreTokens(s, newAccessToken, newIdToken) ==
  Written(emitChange([s EXCEPT !.accessToken = newAccessToken, !.idToken = newIdToken]), s)

\* clearTokens (207-212), imported as clearStoreTokens
clearStoreTokens(s) ==
  Written(emitChange([s EXCEPT !.accessToken = NullToken, !.idToken = NullToken]), s)

\* initialize (217-226), imported as initializeTokenStore; a token left out
\* (undefined) is stored as null.
initializeTokenStore(s, initialAccessToken, initialIdToken) ==
  Written([s EXCEPT !.accessToken = initialAccessToken,
                    !.idToken = initialIdToken,
                    !.cachedSnapshot = NoSnapshot], s)

\* setExpirationBuffer (239-243)
setExpirationBuffer(s, bufferMs) ==
  Written([s EXCEPT !.expirationBufferMs = bufferMs, !.cachedSnapshot = NoSnapshot], s)

\* invalidateCache (256-259)
invalidateCache(s) == Written(emitChange([s EXCEPT !.cachedSnapshot = NoSnapshot]), s)

\* Inputs: the token pairs the store is given, the buffers, and how many
\* TokenState objects are followed.
TokenPairs ==
  { <<FirstToken, FirstIdToken>>, <<FreshToken, FreshIdToken>>,
    <<FirstToken, OpaqueToken>>, <<OpaqueToken, FirstIdToken>> }
InitialPairs == TokenPairs \cup { <<NullToken, NullToken>>, <<FirstToken, NullToken>> }
Buffers == { DEFAULT_EXPIRATION_BUFFER_MS, DEFAULT_TOKEN_CHECK_INTERVAL }
MaxSnapshots == 3

Rest == <<now, jwksCache, calls, token, fetchLog, apiVars, widget>>

StoreSetTokens(pair) ==
  /\ tokenStore' = setStoreTokens(tokenStore, pair[1], pair[2])
  /\ UNCHANGED Rest

StoreClearTokens ==
  /\ tokenStore' = clearStoreTokens(tokenStore)
  /\ UNCHANGED Rest

StoreInitialize(pair) ==
  /\ tokenStore' = initializeTokenStore(tokenStore, pair[1], pair[2])
  /\ UNCHANGED Rest

StoreSetExpirationBuffer(bufferMs) ==
  /\ tokenStore' = setExpirationBuffer(tokenStore, bufferMs)
  /\ UNCHANGED Rest

StoreInvalidateCache ==
  /\ tokenStore' = invalidateCache(tokenStore)
  /\ UNCHANGED Rest

\* A render, a notified listener or a validation check reads the store.
StoreGetSnapshot ==
  /\ tokenStore' = getSnapshot(tokenStore, now)
  /\ tokenStore'.created <= MaxSnapshots
  /\ UNCHANGED Rest

StoreInit ==
  /\ now = StartSec * 1000
  /\ jwksCache = EmptyCache
  /\ calls = [c \in Calls |-> IdleCall]
  /\ token = DemoToken
  /\ fetchLog = [started |-> 0, succeeded |-> 0]
  /\ ApiIdle
  /\ WidgetIdle
  /\ StoreIdle

StoreNext ==
  \/ \E pair \in TokenPairs : StoreSetTokens(pair)
  \/ StoreClearTokens
  \/ \E pair \in InitialPairs : StoreInitialize(pair)
  \/ \E bufferMs \in Buffers : StoreSetExpirationBuffer(bufferMs)
  \/ StoreInvalidateCache
  \/ StoreGetSnapshot
  \/ Pass /\ UNCHANGED tokenStore

StoreSpec == StoreInit /\ [][StoreNext]_vars

(***************************************************************************)
(* Vocabulary of the properties: completed calls and what they were given. *)
(***************************************************************************)
IsDone(c) == calls[c].pc = "done"
Tok(c) == calls[c].tok
Out(c) == calls[c].out
\* The second the call's claims were validated in.
ClockSec(c) == calls[c].at \div 1000

\* The token is three base64url segments with an object header and payload.
WellFormed(tok) ==
  /\ tok.nseg = 3
  /\ tok.hdr.form = "object"
  /\ tok.pay.form = "object"
  /\ tok.sig.form # "nonb64url"

\* The header names a key, by a non-empty string.
HasKid(tok) == tok.hdr.form = "object" /\ tok.hdr.f.kid.t = "str" /\ tok.hdr.f.kid.s # ""

\* The call obtained a JWKS in which the header's kid names key material m.
ResolvesTo(c, m) ==
  /\ IsDone(c)
  /\ HasKid(Tok(c))
  /\ calls[c].jwks.shape = "keys"
  /\ \E i \in 1..Len(calls[c].jwks.keys) :
       /\ calls[c].jwks.keys[i].kid = Tok(c).hdr.f.kid.s
       /\ calls[c].jwks.keys[i].mat = m
       /\ \A j \in 1..(i - 1) : calls[c].jwks.keys[j].kid # Tok(c).hdr.f.kid.s

\* The call obtained a JWKS, and no key of it carries the header's kid.
KidUnknown(c) ==
  /\ IsDone(c)
  /\ HasKid(Tok(c))
  /\ calls[c].jwks.shape = "keys"
  /\ \A i \in 1..Len(calls[c].jwks.keys) :
       calls[c].jwks.keys[i].kid # Tok(c).hdr.f.kid.s

\* The call ended before getPublicKey was called.
NoLookup(c) == IsDone(c) /\ calls[c].jwks = NoJWKS

\* The key set the JWKS endpoint publishes holds material m under the kid.
Published(tok, m) ==
  /\ HasKid(tok)
  /\ \E i \in 1..Len(DEMO_JWKS.keys) :
       /\ DEMO_JWKS.keys[i].kid = tok.hdr.f.kid.s
       /\ DEMO_JWKS.keys[i].mat = m

\* The kid is resolvable for the call: it resolved it, or ended before the
\* lookup with the key published.
Resolvable(c, m) == ResolvesTo(c, m) \/ (NoLookup(c) /\ Published(Tok(c), m))

\* Three segments of base64url text.
Base64urlText(tok) ==
  /\ tok.nseg = 3
  /\ tok.hdr.form # "nonb64url"
  /\ tok.pay.form # "nonb64url"
  /\ tok.sig.form # "nonb64url"

KeyMaterials == {"K1", "K2"}

\* Signed as RS256 by the private key of m, header alg RS256.
SignedRS256(tok, m) ==
  /\ WellFormed(tok)
  /\ tok.hdr.f.alg = Str("RS256")
  /\ tok.sig = Signature("RS256", m)

IssOk(tok) == tok.pay.obj.iss = Str(ISSUER)
AudOk(tok) ==
  \E i \in 1..Len(tok.pay.obj.aud.items) : tok.pay.obj.aud.items[i] = WIDGET_API_AUDIENCE
ExpInFuture(c) == Tok(c).pay.obj.exp.t = "num" /\ Tok(c).pay.obj.exp.n > ClockSec(c)
\* No nbf claim, or a numeric nbf that is not later than the current time.
NbfOk(c) ==
  \/ Tok(c).pay.obj.nbf.t = "absent"
  \/ Tok(c).pay.obj.nbf.t = "num" /\ Tok(c).pay.obj.nbf.n <= ClockSec(c)

(***************************************************************************)
(* C1.  Round trip.  As claimed: every token signed by the private key     *)
(* matching the JWKS key its kid names, alg RS256, expected iss, aud       *)
(* containing the expected audience and exp strictly in the future, is     *)
(* Accepted with claims equal to the signed payload.                       *)
(***************************************************************************)
C1_AsClaimed ==
  \A c \in Calls, m \in KeyMaterials :
    ( /\ ResolvesTo(c, m) /\ SignedRS256(Tok(c), m)
      /\ IssOk(Tok(c)) /\ AudOk(Tok(c)) /\ ExpInFuture(c) )
    => Out(c) = Accepted([kind |-> "object", obj |-> Tok(c).pay.obj])

\* C1, amended: the same, for tokens that carry no nbf claim or a numeric nbf
\* that is not later than the current time.
C1_RoundTrip ==
  \A c \in Calls, m \in KeyMaterials :
    ( /\ ResolvesTo(c, m) /\ SignedRS256(Tok(c), m)
      /\ IssOk(Tok(c)) /\ AudOk(Tok(c)) /\ ExpInFuture(c) /\ NbfOk(c) )
    => Out(c) = Accepted([kind |-> "object", obj |-> Tok(c).pay.obj])

C1_Witness ==
  \E c \in Calls :
    /\ ResolvesTo(c, "K1") /\ SignedRS256(Tok(c), "K1")
    /\ IssOk(Tok(c)) /\ Tok(c).pay.obj.aud.t = "arr" /\ AudOk(Tok(c))
    /\ ExpInFuture(c) /\ Tok(c).pay.obj.nbf.t = "num" /\ NbfOk(c)
    /\ Out(c).result = "Accepted"
    /\ Out(c).claims.obj = Tok(c).pay.obj

(***************************************************************************)
(* C2.  Altered signature.  As claimed: every token whose signature        *)
(* segment has a single bit flipped, header and payload kept and the kid   *)
(* resolvable, is rejected with TOKEN_INVALID_SIGNATURE.                   *)
(***************************************************************************)
C2_AsClaimed ==
  \A c \in Calls, m \in KeyMaterials :
    ( /\ Resolvable(c, m)
      /\ Tok(c).nseg = 3 /\ Tok(c).hdr.form = "object" /\ Tok(c).pay.form = "object"
      /\ Tok(c).hdr.f.alg = Str("RS256")
      /\ Tok(c).sig \in FlipBit(Signature("RS256", m)) )
    => Out(c).result = "TOKEN_INVALID_SIGNATURE"

\* C2, amended: a single flipped bit that changes the decoded signature value
\* and leaves the segment base64url text gives TOKEN_INVALID_SIGNATURE.
C2_AlteredSignature ==
  \A c \in Calls, m \in KeyMaterials :
    ( /\ Resolvable(c, m)
      /\ WellFormed(Tok(c))
      /\ Tok(c).hdr.f.alg = Str("RS256")
      /\ Tok(c).sig = [Signature("RS256", m) EXCEPT !.val = <<"bytes", m>>] )
    => Out(c).result = "TOKEN_INVALID_SIGNATURE"

C2_Witness ==
  \E c \in Calls :
    /\ ResolvesTo(c, "K1")
    /\ WellFormed(Tok(c))
    /\ Tok(c).hdr.f.alg = Str("RS256")
    /\ Tok(c).sig = [Signature("RS256", "K1") EXCEPT !.val = <<"bytes", "K1">>]
    /\ IssOk(Tok(c)) /\ AudOk(Tok(c)) /\ ExpInFuture(c) /\ NbfOk(c)
    /\ Out(c).result = "TOKEN_INVALID_SIGNATURE"

(***************************************************************************)
(* C3.  Only RS256.  Every token of three base64url segments whose header  *)
(* declares an algorithm other than RS256, with a resolvable kid, is       *)
(* rejected with TOKEN_INVALID_SIGNATURE (and so never Accepted).          *)
(***************************************************************************)
C3_OnlyRS256 ==
  \A c \in Calls, m \in KeyMaterials :
    ( /\ Resolvable(c, m)
      /\ Base64urlText(Tok(c))
      /\ Tok(c).hdr.form = "object"
      /\ Tok(c).hdr.f.alg # Str("RS256") )
    => Out(c).result = "TOKEN_INVALID_SIGNATURE"

(***************************************************************************)
(* C4.  Claims are validated only after the signature: a token with a      *)
(* resolved key whose signature does not verify against it is rejected     *)
(* with TOKEN_INVALID_SIGNATURE whatever its exp, iss and aud are.         *)
(***************************************************************************)
C4_SignatureBeforeClaims ==
  \A c \in Calls, m \in KeyMaterials :
    ( /\ ResolvesTo(c, m)
      /\ WellFormed(Tok(c))
      /\ ~(Tok(c).sig.form = "b64url" /\ Tok(c).sig.val = <<"RS256", m>>) )
    => /\ Out(c).result = "TOKEN_INVALID_SIGNATURE"
       /\ Out(c).result \notin
            {"TOKEN_EXPIRED", "TOKEN_INVALID_ISSUER", "TOKEN_INVALID_AUDIENCE"}

C4_Witness ==
  \E c \in Calls :
    /\ ResolvesTo(c, "K1")
    /\ WellFormed(Tok(c))
    /\ Tok(c).hdr.f.alg = Str("RS256")
    /\ Tok(c).sig = Signature("RS256", "K2")
    /\ Tok(c).pay.obj.exp.t = "num" /\ ~ExpInFuture(c)
    /\ ~IssOk(Tok(c)) /\ ~AudOk(Tok(c))
    /\ Out(c).result = "TOKEN_INVALID_SIGNATURE"

(***************************************************************************)
(* C5.  Totality of the taxonomy: every call ends with validated claims    *)
(* or with a TokenVerificationError of one of the eight codes, so the      *)
(* middleware never answers 500 because of the token.                      *)
(***************************************************************************)
C5_Totality ==
  \A c \in Calls :
    IsDone(c) =>
      /\ Out(c).result \in {"Accepted"} \cup ErrorCodes
      /\ ResponseStatus(Out(c)) # 500

(***************************************************************************)
(* C6.  Claim checks run in the order exp, iss, aud and the first failing  *)
(* check gives the code: for a correctly signed token with a numeric exp   *)
(* the result is the code of the first violated check.                     *)
(***************************************************************************)
FirstViolated(c) ==
  IF ~ExpInFuture(c) THEN "TOKEN_EXPIRED"
  ELSE IF ~IssOk(Tok(c)) THEN "TOKEN_INVALID_ISSUER"
  ELSE IF ~AudOk(Tok(c)) THEN "TOKEN_INVALID_AUDIENCE"
  ELSE "Accepted"

C6_CheckOrder ==
  \A c \in Calls, m \in KeyMaterials :
    ( /\ ResolvesTo(c, m) /\ SignedRS256(Tok(c), m)
      /\ Tok(c).pay.obj.exp.t = "num" /\ NbfOk(c) )
    => Out(c).result = FirstViolated(c)

(***************************************************************************)
(* C7.  Expiry boundary.  As claimed: for a correctly signed token with    *)
(* valid iss and aud, exp <= now (exp = now - 1, exp = now) gives          *)
(* TOKEN_EXPIRED and exp = now + 1 passes the expiry check.                *)
(***************************************************************************)
C7_AsClaimed ==
  \A c \in Calls, m \in KeyMaterials :
    ( /\ ResolvesTo(c, m) /\ SignedRS256(Tok(c), m)
      /\ IssOk(Tok(c)) /\ AudOk(Tok(c)) /\ Tok(c).pay.obj.exp.t = "num" )
    => /\ Tok(c).pay.obj.exp.n <= ClockSec(c) => Out(c).result = "TOKEN_EXPIRED"
       /\ Tok(c).pay.obj.exp.n > ClockSec(c) => Out(c).result # "TOKEN_EXPIRED"

\* C7, amended: the same, for tokens that carry no nbf claim or a numeric nbf
\* that is not later than the current time; past the expiry check such a
\* token is Accepted.
C7_ExpiryBoundary ==
  \A c \in Calls, m \in KeyMaterials :
    ( /\ ResolvesTo(c, m) /\ SignedRS256(Tok(c), m)
      /\ IssOk(Tok(c)) /\ AudOk(Tok(c)) /\ Tok(c).pay.obj.exp.t = "num" /\ NbfOk(c) )
    => /\ Tok(c).pay.obj.exp.n <= ClockSec(c) => Out(c).result = "TOKEN_EXPIRED"
       /\ Tok(c).pay.obj.exp.n > ClockSec(c) => Out(c).result = "Accepted"

C7_Witness ==
  \E c \in Calls :
    /\ ResolvesTo(c, "K1") /\ SignedRS256(Tok(c), "K1")
    /\ IssOk(Tok(c)) /\ AudOk(Tok(c)) /\ NbfOk(c)
    /\ Tok(c).pay.obj.exp = Num(ClockSec(c))
    /\ Out(c).result = "TOKEN_EXPIRED"

(***************************************************************************)
(* C8.  exp must exist: a correctly signed token with valid iss and aud    *)
(* and no exp claim is rejected with TOKEN_EXPIRED.                        *)
(***************************************************************************)
C8_ExpRequired ==
  \A c \in Calls, m \in KeyMaterials :
    ( /\ ResolvesTo(c, m) /\ SignedRS256(Tok(c), m)
      /\ IssOk(Tok(c)) /\ AudOk(Tok(c)) /\ Tok(c).pay.obj.exp.t = "absent" )
    => Out(c).result = "TOKEN_EXPIRED"

(***************************************************************************)
(* C9.  Unknown kid: for a token of three base64url segments whose header  *)
(* kid is in no key of the KeySet, the call ends with KEY_NOT_FOUND and    *)
(* nothing else is thrown.                                                 *)
(***************************************************************************)
C9_KeyNotFound ==
  \A c \in Calls :
    ( /\ IsDone(c)
      /\ Base64urlText(Tok(c))
      /\ HasKid(Tok(c))
      /\ \A m \in KeyMaterials : ~Published(Tok(c), m)
      /\ KidUnknown(c) \/ NoLookup(c) )
    => Out(c).result = "KEY_NOT_FOUND"

(***************************************************************************)
(* C10.  Every token string that does not split into exactly three         *)
(* segments, or whose header segment cannot be base64url-decoded and       *)
(* JSON-parsed, is rejected with TOKEN_MALFORMED.                          *)
(***************************************************************************)
C10_Malformed ==
  \A c \in Calls :
    ( /\ IsDone(c)
      /\ Tok(c).nseg # 3 \/ Tok(c).hdr.form \in {"nonb64url", "notjson"} )
    => Out(c).result = "TOKEN_MALFORMED"

C10_Witness ==
  \E c \in Calls :
    /\ IsDone(c)
    /\ Tok(c) = Segments(1, HdrOf("notjson"))
    /\ Out(c).result = "TOKEN_MALFORMED"

(***************************************************************************)
(* Vocabulary of the cache properties.                                     *)
(***************************************************************************)
\* The token gets past lines 129-145: getPublicKey is called for its kid.
ReachesLookup(tok) == DecodeHeader(tok) = Pending

\* In this step verifyAccessToken is called in slot c.
Begins(c) == calls[c].pc \in {"idle", "done"} /\ calls'[c] # calls[c]

\* In this step the fetch that call c awaits fails and the call ends.
FetchFails(c) ==
  /\ calls[c].pc = "awaitFetch"
  /\ calls'[c].pc = "done"
  /\ calls'[c].jwks = FetchFailed

\* KeySource fetches the current or last invocation in slot c performed.
Fetches(c) == calls[c].fetches

(***************************************************************************)
(* C11.  A token whose decoded header has no kid that is a non-empty       *)
(* string (kid absent, empty, or a number) is rejected with                *)
(* TOKEN_MALFORMED before any key lookup: no JWKS is obtained and no fetch *)
(* is made for it.                                                         *)
(***************************************************************************)
C11_KidMustBeString ==
  \A c \in Calls :
    ( /\ calls[c].pc # "idle"
      /\ jwtDecode(Tok(c)).r = "ok"
      /\ ~HasKid(Tok(c)) )
    => /\ IsDone(c)
       /\ Out(c).result = "TOKEN_MALFORMED"
       /\ NoLookup(c)
       /\ Fetches(c) = 0

(***************************************************************************)
(* C12.  Cache fetch count.  With t the time of the latest call whose      *)
(* fetch delivered a key set: a call that reaches the key lookup and       *)
(* starts while now - t < TTL performs no fetch, and the first call that   *)
(* starts once now - t >= TTL (no fetch was begun since t + TTL) performs  *)
(* exactly one.                                                            *)
(***************************************************************************)
C12_FetchCount ==
  [][ \A c \in CacheCalls :
        ( /\ Begins(c)
          /\ ReachesLookup(calls'[c].tok)
          /\ fetchLog.succeeded > 0 )
        => /\ now - fetchLog.succeeded < ttlMs => calls'[c].fetches = 0
           /\ ( /\ now - fetchLog.succeeded >= ttlMs
                /\ fetchLog.started - fetchLog.succeeded < ttlMs )
              => calls'[c].fetches = 1 ]_vars

(***************************************************************************)
(* C13.  Refresh on kid miss: a call for a string kid reports              *)
(* KEY_NOT_FOUND only after it has performed one refresh, also when the    *)
(* cache was fresh when it started.                                        *)
(***************************************************************************)
C13_RefreshOnMiss ==
  \A c \in CacheCalls :
    ( /\ IsDone(c)
      /\ HasKid(Tok(c))
      /\ Out(c).result = "KEY_NOT_FOUND" \/ KidUnknown(c) )
    => Fetches(c) = 1

(***************************************************************************)
(* C14.  A failed refresh (network error, status not ok, unparsable body)  *)
(* leaves the cache as it was: the step in which a call's fetch fails      *)
(* changes neither the cached key set nor fetchedAt.                       *)
(***************************************************************************)
C14_FailedRefreshKeepsCache ==
  [][ \A c \in CacheCalls : FetchFails(c) => jwksCache' = jwksCache ]_vars

\* A refresh of a stale cache has failed and the stale key set is still cached.
C14_Witness ==
  \E c \in CacheCalls :
    /\ IsDone(c)
    /\ calls[c].jwks = FetchFailed
    /\ Fetches(c) = 1
    /\ jwksCache.jwks = DEMO_JWKS
    /\ jwksCache.fetchedAt = fetchLog.succeeded
    /\ fetchLog.started - jwksCache.fetchedAt >= ttlMs
    /\ calls[c].at - jwksCache.fetchedAt >= ttlMs

(***************************************************************************)
(* C15.  Cache resilience: when the refresh of a call fails while a key    *)
(* set that resolves the token's kid is cached, the call still gets the    *)
(* key from the cached data and ends as verification with that key ends.   *)
(***************************************************************************)
C15_StaleFallback ==
  [][ \A c \in CacheCalls :
        ( /\ FetchFails(c)
          /\ jwksCache.jwks.shape = "keys"
          /\ getPublicKey(calls[c].tok.hdr.f.kid, jwksCache.jwks).ok )
        => calls'[c].out = ResolveAndVerify(calls[c].tok, jwksCache.jwks, now) ]_vars

(***************************************************************************)
(* C16.  When the fetch of a call for a string kid fails while the cached  *)
(* key set lacks that kid, the call fails with JWKS_FETCH_FAILED and not   *)
(* with KEY_NOT_FOUND.                                                     *)
(***************************************************************************)
C16_FetchFailedNotKeyNotFound ==
  [][ \A c \in CacheCalls :
        ( /\ FetchFails(c)
          /\ HasKid(calls[c].tok)
          /\ jwksCache.jwks.shape = "keys"
          /\ Matching(jwksCache.jwks, calls[c].tok.hdr.f.kid) = {} )
        => calls'[c].out = Rejected("JWKS_FETCH_FAILED") ]_vars

(***************************************************************************)
(* C17.  Every fetch that ends in a network error, a status that is not ok *)
(* or a malformed JSON body makes the call fail with JWKS_FETCH_FAILED,    *)
(* whatever the status text or error message is.                           *)
(***************************************************************************)
C17_FetchFailureCode ==
  \A c \in Calls :
    (IsDone(c) /\ calls[c].jwks = FetchFailed) => Out(c).result = "JWKS_FETCH_FAILED"

(***************************************************************************)
(* C18.  A 2xx body that is valid JSON without the key set shape is a      *)
(* failed fetch: it is never the cached snapshot and no call is handed it, *)
(* from the fetch or from the cache.                                       *)
(***************************************************************************)
C18_ShapeChecked ==
  /\ jwksCache.jwks.shape # "other"
  /\ \A c \in CacheCalls : IsDone(c) => calls[c].jwks.shape # "other"

(***************************************************************************)
(* C19.  If the JWK that the token's kid resolves to has malformed key     *)
(* material, the call is rejected with TOKEN_INVALID_SIGNATURE.            *)
(***************************************************************************)
C19_BadKeyMaterial ==
  \A c \in CacheCalls :
    (ResolvesTo(c, "bad") \/ ResolvesTo(c, "garbage"))
    => Out(c).result = "TOKEN_INVALID_SIGNATURE"

(***************************************************************************)
(* C20.  No retries: an invocation performs at most one fetch on every     *)
(* path, so at any time the fetches of the invocations in the slots are    *)
(* no more than the invocations.                                           *)
(***************************************************************************)
C20_NoRetries ==
  \A c \in CacheCalls :
    /\ Fetches(c) <= 1
    /\ calls[c].pc = "idle" => Fetches(c) = 0

\* Two concurrent calls each fetched once: one fetch failed, the other
\* delivered a key set without the kid.
C20_Witness ==
  \E c, d \in CacheCalls :
    /\ c # d
    /\ IsDone(c) /\ calls[c].jwks = FetchFailed /\ Fetches(c) = 1
    /\ Out(c).result = "JWKS_FETCH_FAILED"
    /\ IsDone(d) /\ KidUnknown(d) /\ Fetches(d) = 1
    /\ Out(d).result = "KEY_NOT_FOUND"
    /\ calls[c].at = calls[d].at

(***************************************************************************)
(* C24.  TOKEN_INVALID_SIGNATURE is returned only when the signature does  *)
(* not verify against the resolved key or the algorithm is unsupported: a  *)
(* token correctly RS256-signed by the key its kid resolves to is never    *)
(* rejected with TOKEN_INVALID_SIGNATURE.                                  *)
(***************************************************************************)
C24_SignatureCodeOnlyForSignature ==
  \A c \in Calls, m \in KeyMaterials :
    (ResolvesTo(c, m) /\ SignedRS256(Tok(c), m))
    => Out(c).result # "TOKEN_INVALID_SIGNATURE"

(***************************************************************************)
(* C23.  One call moves forward only: a call that awaits its fetch has no  *)
(* outcome yet and next ends, for the same token and with the same fetch   *)
(* count; a call rejected with TOKEN_MALFORMED ended in decoding, without  *)
(* a fetch and without a key set; a call rejected with KEY_NOT_FOUND or    *)
(* JWKS_FETCH_FAILED reached the key lookup and ended there, with no key   *)
(* to verify a signature with.                                             *)
(***************************************************************************)
C23_ForwardOnly ==
  /\ [] \A c \in Calls :
          /\ (calls[c].pc = "done") <=> (Out(c) # Pending)
          /\ (IsDone(c) /\ Out(c).result = "TOKEN_MALFORMED")
             => (Fetches(c) = 0 /\ NoLookup(c))
          /\ (IsDone(c) /\ Out(c).result \in {"KEY_NOT_FOUND", "JWKS_FETCH_FAILED"})
             => /\ ReachesLookup(Tok(c))
                /\ ~NoLookup(c)
                /\ \/ calls[c].jwks = FetchFailed
                   \/ ~getPublicKey(jwtDecode(Tok(c)).header.f.kid, calls[c].jwks).ok
  /\ [][ \A c \in Calls :
           (calls[c].pc = "awaitFetch" /\ calls'[c] # calls[c])
           => /\ calls'[c].pc = "done"
              /\ calls'[c].tok = calls[c].tok
              /\ calls'[c].fetches = calls[c].fetches ]_vars

\* A call ended in the key lookup after its one fetch: the key set it got
\* lacks the kid of a correctly signed token.
C23_Witness ==
  \E c \in Calls :
    /\ IsDone(c)
    /\ Fetches(c) = 1
    /\ KidUnknown(c)
    /\ SignedRS256(Tok(c), "K2")
    /\ Out(c).result = "KEY_NOT_FOUND"

(***************************************************************************)
(* C22.  Atomic snapshot replacement: under every interleaving of          *)
(* concurrent calls, each step that changes the cache installs the key set *)
(* one call's fetch delivered together with the time that call read before *)
(* the fetch, so the cache is empty or holds the key set and fetchedAt of  *)
(* one completed fetch, never the key set of one with the time of another. *)
(***************************************************************************)
C22_AtomicSnapshot ==
  /\ [] (jwksCache = EmptyCache \/ (jwksCache.jwks # NoJWKS /\ jwksCache.fetchedAt > 0))
  /\ [][ jwksCache' # jwksCache
         => \E c \in CacheCalls :
              /\ calls[c].pc = "awaitFetch"
              /\ calls'[c].pc = "done"
              /\ jwksCache' = [jwks |-> calls'[c].jwks, fetchedAt |-> calls[c].now0] ]_vars

\* The fetch of one call has replaced an older snapshot while a second call,
\* begun later, still awaits its own fetch.
C22_Witness ==
  \E c, d \in CacheCalls :
    /\ c # d
    /\ IsDone(c)
    /\ Fetches(c) = 1
    /\ calls[c].jwks = ROTATED_JWKS
    /\ jwksCache.jwks = ROTATED_JWKS
    /\ fetchLog.succeeded > jwksCache.fetchedAt
    /\ calls[d].pc = "awaitFetch"
    /\ calls[d].now0 > jwksCache.fetchedAt

(***************************************************************************)
(* A JWKS endpoint that may never respond.  fetch(JWKS_URI) is called      *)
(* without an AbortSignal and no timer races it (57), and so is            *)
(* response.json() (63): when the endpoint accepts the connection and      *)
(* sends nothing more, neither promise settles and the call stays          *)
(* suspended at its await.                                                 *)
(***************************************************************************)
FetchHangs(c) ==
  /\ calls[c].pc = "awaitFetch"
  /\ calls' = [calls EXCEPT ![c].pc = "hung"]
  /\ UNCHANGED <<now, jwksCache, token, fetchLog, apiVars, widget, tokenStore>>

HangInit ==
  /\ now = StartSec * 1000
  /\ jwksCache = EmptyCache
  /\ calls = [c \in Calls |-> IdleCall]
  /\ token \in CacheTokens
  /\ fetchLog = [started |-> 0, succeeded |-> 0]
  /\ ApiIdle
  /\ WidgetIdle
  /\ StoreIdle

HangNext ==
  \/ \E c \in Calls : VerifyBegin(c, token) /\ UNCHANGED <<apiVars, widget, tokenStore>>
  \/ \E c \in Calls, o \in FetchOutcomes : FetchSettles(c, o) /\ UNCHANGED <<apiVars, widget, tokenStore>>
  \/ \E c \in Calls : FetchHangs(c)
  \/ Tick

\* The endpoint decides the fate of every fetch, and the event loop resumes a
\* call whose fetch has settled.
HangSpec ==
  /\ HangInit
  /\ [][HangNext]_vars
  /\ \A c \in Calls :
       WF_vars((\E o \in FetchOutcomes : FetchSettles(c, o) /\ UNCHANGED <<apiVars, widget, tokenStore>>)
               \/ FetchHangs(c))

(***************************************************************************)
(* C21.  Every call that awaits the JWKS endpoint eventually ends with     *)
(* Accepted or a Rejected code, also when the endpoint never responds: the *)
(* fetch is cut off and the call reports JWKS_FETCH_FAILED.                *)
(***************************************************************************)
C21_Terminates ==
  \A c \in Calls :
    (calls[c].pc \in {"awaitFetch", "hung"})
    ~> (IsDone(c) /\ Out(c).result \in ErrorCodes \cup {"Accepted"})

(***************************************************************************)
(* Vocabulary of the API properties.                                       *)
(***************************************************************************)
\* The header carries a non-empty bearer token: the scheme, one or more
\* spaces, the token (RFC 6750: "Bearer" 1*SP b64token).
BearerToken(h) ==
  /\ Len(h) >= 3
  /\ h[1] = Word("Bearer")
  /\ \A i \in 2..(Len(h) - 1) : h[i] = SP
  /\ ~h[Len(h)].sp /\ h[Len(h)].w = "credential"

\* The request in slot c has been answered.
Answered(c) == requests[c].phase = "responded"

\* The request went through as anonymous: no user, next() called, the
\* verifier not called and no error response of the middleware.
PassedAsAnonymous(c) ==
  /\ Answered(c)
  /\ requests[c].user = NoPayload
  /\ ~requests[c].isAuthenticated
  /\ requests[c].nextCalled
  /\ ~requests[c].verifierCalled
  /\ requests[c].status \notin {401, 500} \/ requests[c].code = ""

\* The item the answer to the request in slot c reports as stored.
Stored(c) == feedbackStore[requests[c].feedback]

(***************************************************************************)
(* C25.  authenticateToken passes a request through as anonymous if and    *)
(* only if it supplies no token: a request without Authorization header    *)
(* passes as anonymous, and every request whose header carries a non-empty *)
(* bearer token is handed to the verifier and does not pass as anonymous.  *)
(***************************************************************************)
C25_AnonymousIffNoToken ==
  \A c \in ApiCalls :
    /\ (requests[c].phase # "none" /\ requests[c].header = NoHeader)
       => PassedAsAnonymous(c)
    /\ (requests[c].phase # "none" /\ BearerToken(requests[c].header))
       => (requests[c].verifierCalled /\ ~PassedAsAnonymous(c))

(***************************************************************************)
(* C26.  When the verification of a request's token is rejected with code  *)
(* c, authenticateToken answers 401 with code c in the body and does not   *)
(* call next(): the route handler does not run and the step in which the   *)
(* request is answered stores nothing.                                     *)
(***************************************************************************)
C26_RejectedIs401 ==
  /\ [] \A c \in ApiCalls :
          (Answered(c) /\ requests[c].verifierCalled /\ Out(c).result \in ErrorCodes)
          => /\ requests[c].status = 401
             /\ requests[c].code = Out(c).result
             /\ ~requests[c].nextCalled
             /\ requests[c].feedback = 0
             /\ requests[c].user = NoPayload
  /\ [][ \A c \in ApiCalls :
           ( /\ ~Answered(c)
             /\ requests'[c].phase = "responded"
             /\ requests'[c].verifierCalled
             /\ calls'[c].out.result \in ErrorCodes )
           => feedbackStore' = feedbackStore ]_vars

\* Of two concurrent requests with a good body, the one with the expired
\* token was answered 401 TOKEN_EXPIRED and the other one's item is the only
\* one stored.
C26_Witness ==
  \E c, d \in ApiCalls :
    /\ c # d
    /\ Answered(c)
    /\ requests[c].body.rating = 5
    /\ requests[c].header = <<Word("Bearer"), SP, Credential(ExpiredToken)>>
    /\ Fetches(c) = 1
    /\ requests[c].status = 401
    /\ requests[c].code = "TOKEN_EXPIRED"
    /\ Answered(d)
    /\ requests[d].status = 201
    /\ Len(feedbackStore) = 1

(***************************************************************************)
(* C27.  User identity comes from the verified token, never from the body: *)
(* the userId stored with a feedback item is the sub of the token that     *)
(* authenticateToken verified for the request, or 'anonymous' when the     *)
(* request had no Authorization header, and two requests with the same     *)
(* header and different bodies store the same userId.                      *)
(***************************************************************************)
C27_IdentityFromToken ==
  /\ \A c \in ApiCalls :
       (Answered(c) /\ requests[c].status = 201)
       => /\ requests[c].isAuthenticated
             => /\ Out(c).result = "Accepted"
                /\ Stored(c).userId = Tok(c).pay.obj.sub.s
          /\ requests[c].header = NoHeader => Stored(c).userId = "anonymous"
  /\ \A c, d \in ApiCalls :
       ( /\ Answered(c) /\ requests[c].status = 201
         /\ Answered(d) /\ requests[d].status = 201
         /\ requests[c].header = requests[d].header
         /\ requests[c].body # requests[d].body )
       => Stored(c).userId = Stored(d).userId

(***************************************************************************)
(* Vocabulary of the widget properties.                                    *)
(***************************************************************************)
\* tokenValidator.ts isValidationRunning (229-231)
isValidationRunning(w) == w.validationTimerId # 0

\* The handler that ran last emitted exactly the events of these types.
EmittedTypes(w) == [i \in 1..Len(w.events) |-> w.events[i].type]

SecondsLeft(tok, t) ==
  IF tok.kind = "jwt" /\ tok.exp * 1000 - t >= 1000 THEN (tok.exp * 1000 - t) \div 1000 ELSE 0

\* What a check of access token tok at time t has to have done, when after is
\* the widget after the handler that made it.
ActsOn(tok, t, buffer, mayCall, after) ==
  LET ttl == SecondsLeft(tok, t) IN
  /\ (tok = NullToken \/ ttl <= 0)
     => /\ EmittedTypes(after) = <<"TOKENS_EXPIRED">>
        /\ after.called = 0
  /\ (tok # NullToken /\ 0 < ttl /\ ttl * 1000 < buffer)
     => /\ EmittedTypes(after) = <<"TOKENS_EXPIRING_SOON">>
        /\ after.called = (IF mayCall THEN 1 ELSE 0)
  /\ (tok # NullToken /\ ttl * 1000 >= buffer)
     => /\ after.events = <<>>
        /\ after.called = 0

C29_CheckByStatus ==
  [][ /\ ( /\ widget'.op = "check"
           /\ now' = now
           /\ widget.currentConfig.set )
         => /\ ActsOn(widget.accessToken, now,
                      widget.currentConfig.tokenExpirationBuffer,
                      widget.currentConfig.getTokens /\ ~widget.isRefreshing,
                      widget')
            /\ widget'.inFlight = widget.inFlight + widget'.called
            /\ widget'.accessToken = widget.accessToken
            /\ widget'.idToken = widget.idToken
      /\ ( /\ widget'.op = "setTokens"
           /\ now' = now
           /\ widget.config.set )
         => /\ ActsOn(widget'.accessToken, now,
                      widget'.currentConfig.tokenExpirationBuffer,
                      widget'.currentConfig.getTokens,
                      widget')
            /\ widget'.inFlight = widget.inFlight + widget'.called ]_vars

\* A timer tick found the token one millisecond inside the buffer: the event
\* was emitted and getTokens called.
C29_Witness ==
  /\ widget.op = "check"
  /\ widget.accessToken = FirstToken
  /\ now = (StartSec + ACCESS_TOKEN_EXPIRY_SECONDS) * 1000 - DEFAULT_TOKEN_EXPIRATION_BUFFER + 1
  /\ EmittedTypes(widget) = <<"TOKENS_EXPIRING_SOON">>
  /\ widget.called = 1
  /\ widget.inFlight = 1
  /\ widget.isRefreshing

(***************************************************************************)
(* C30.  Outcome of a refresh attempt, in the step in which the getTokens  *)
(* promise settles: with both tokens the store holds exactly these tokens  *)
(* and TOKENS_REFRESHED is emitted; with null or an incomplete pair the    *)
(* store is unchanged and TOKENS_EXPIRED is emitted; with a rejection the  *)
(* store is unchanged and ERROR with code TOKEN_REFRESH_ERROR is emitted;  *)
(* in every case isRefreshing is false afterwards.                         *)
(***************************************************************************)
C30_RefreshOutcome ==
  [][ (widget'.op = "refreshSettled" /\ now' = now /\ widget'.inFlight = widget.inFlight - 1)
      => LET r == widget'.result
             both == r.kind = "tokens" /\ r.accessToken # NullToken /\ r.idToken # NullToken
         IN /\ both
               => /\ widget'.accessToken = r.accessToken
                  /\ widget'.idToken = r.idToken
                  /\ EmittedTypes(widget') = <<"TOKENS_REFRESHED">>
            /\ (r.kind # "throws" /\ ~both)
               => /\ widget'.accessToken = widget.accessToken
                  /\ widget'.idToken = widget.idToken
                  /\ EmittedTypes(widget') = <<"TOKENS_EXPIRED">>
            /\ r.kind = "throws"
               => /\ widget'.accessToken = widget.accessToken
                  /\ widget'.idToken = widget.idToken
                  /\ widget'.events = <<[type |-> "ERROR", code |-> "TOKEN_REFRESH_ERROR"]>>
            /\ ~widget'.isRefreshing ]_vars

(***************************************************************************)
(* C31.  At any time at most one call of the host's getTokens callback is  *)
(* in flight, under every interleaving of timer ticks, forceTokenRefresh,  *)
(* startTokenValidation, stopTokenValidation and the widget's setTokens.   *)
(***************************************************************************)
C31_SingleFlight == widget.inFlight <= 1

(***************************************************************************)
(* C32.  After stopTokenValidation() (and so after the widget's destroy()) *)
(* has returned and before validation is started again, a getTokens call   *)
(* that was in flight and settles changes the token store not and emits no *)
(* event.                                                                  *)
(***************************************************************************)
C32_QuietAfterStop ==
  [][ ( /\ widget'.op = "refreshSettled"
        /\ now' = now
        /\ widget'.inFlight = widget.inFlight - 1
        /\ ~widget.currentConfig.set )
      => /\ widget'.accessToken = widget.accessToken
         /\ widget'.idToken = widget.idToken
         /\ widget'.events = <<>> ]_vars

(***************************************************************************)
(* C33.  Whenever no widget operation is in progress (after init,          *)
(* setTokens, clearTokens, destroy or a validator-driven refresh has       *)
(* completed), the access token the API client attaches to requests        *)
(* (getApiAccessToken) equals the access token in the token store          *)
(* (getAccessToken).                                                       *)
(***************************************************************************)
C33_ClientTokenIsStoreToken ==
  ~widget.initAwaiting.set => widget.apiAccessToken = widget.accessToken

C35_AuthenticatedIsUnexpired ==
  tokenStore.returned.isAuthenticated
  => /\ tokenStore.returned.accessToken.kind = "jwt"
     /\ tokenStore.returned.user
     /\ tokenStore.returned.accessToken.exp * 1000 > tokenStore.returnedAt

(***************************************************************************)
(* C36.  Double initialization is prevented: between two destroy calls     *)
(* init creates at most one React root, so createRoot (widget-api 222) is  *)
(* never reached while a root exists, also when a second init starts while *)
(* the first one is awaiting the style injection.                          *)
(***************************************************************************)
C36_OneRoot ==
  [][ ( /\ widget'.op = "initResumes"
        /\ widget.initAwaiting.set
        /\ ~widget'.initAwaiting.set )
      => ~widget.root ]_vars

(***************************************************************************)
(* C37.  destroy is final: once destroy() has returned and the host calls  *)
(* neither init nor setTokens, the widget stays destroyed (no React root,  *)
(* token validation not running, store tokens and API client token null),  *)
(* also when an init call was in progress when destroy was called; and     *)
(* DESTROYED is emitted exactly once per destroy of an initialized widget. *)
(***************************************************************************)
\* The widget as destroy() leaves it.
Destroyed(w) ==
  /\ ~w.root
  /\ ~w.config.set
  /\ ~isValidationRunning(w)
  /\ w.timers = {}
  /\ w.accessToken = NullToken
  /\ w.idToken = NullToken
  /\ w.apiAccessToken = NullToken

C37_DestroyIsFinal ==
  [][ /\ ( /\ Destroyed(widget)
           /\ now' = now
           /\ widget'.op \notin {"init", "setTokens"} )
         => Destroyed(widget')
      /\ ( /\ widget'.op = "destroy"
           /\ now' = now
           /\ widget.root )
         => EmittedTypes(widget') = <<"DESTROYED">> ]_vars

(***************************************************************************)
(* C38.  init on a not yet initialized widget with a targetId that matches *)
(* no element emits ERROR with code CONTAINER_NOT_FOUND, emits no          *)
(* INITIALIZED event and leaves the widget state unchanged: no root, the   *)
(* stored config, the token store and the API client token untouched,      *)
(* validation neither started nor stopped.                                 *)
(***************************************************************************)
C38_ContainerNotFound ==
  [][ \A config \in WidgetConfigs :
        ( /\ ~config.target
          /\ ~widget.root
          /\ WidgetInit(config) )
        => /\ widget'.events = <<[type |-> "ERROR", code |-> "CONTAINER_NOT_FOUND"]>>
           /\ ~widget'.root
           /\ widget'.config = widget.config
           /\ widget'.initAwaiting = widget.initAwaiting
           /\ widget'.shadowContainer = widget.shadowContainer
           /\ widget'.accessToken = widget.accessToken
           /\ widget'.idToken = widget.idToken
           /\ widget'.apiAccessToken = widget.apiAccessToken
           /\ widget'.validationTimerId = widget.validationTimerId
           /\ widget'.timers = widget.timers
           /\ widget'.currentConfig = widget.currentConfig
           /\ widget'.isRefreshing = widget.isRefreshing
           /\ widget'.inFlight = widget.inFlight ]_vars

\* The host had set tokens before it called init with a targetId that is not
\* in the page: the error was reported and the tokens are as they were.
C38_Witness ==
  /\ widget.op = "init"
  /\ widget.events = <<[type |-> "ERROR", code |-> "CONTAINER_NOT_FOUND"]>>
  /\ ~widget.root
  /\ ~widget.config.set
  /\ widget.accessToken = FreshToken
  /\ widget.apiAccessToken = FreshToken
  /\ ~isValidationRunning(widget)

(***************************************************************************)
(* The widget with a host that answers, on the timer's schedule.  The      *)
(* interval timer fires every tokenCheckInterval (tokenValidator.ts        *)
(* 181-183).  The clock is followed from tick to tick: while the first     *)
(* token is valid the ticks find nothing to do, and from the first instant *)
(* at which it is expiring the ticks are DEFAULT_TOKEN_CHECK_INTERVAL      *)
(* apart.  The host's getTokens resolves with a fresh pair of tokens.      *)
(***************************************************************************)
FreshPair == [kind |-> "tokens", accessToken |-> FreshToken, idToken |-> FreshIdToken]

\* The instants at which the timer fires.
TickTimes ==
  LET expiring == (StartSec + ACCESS_TOKEN_EXPIRY_SECONDS) * 1000
                    - DEFAULT_TOKEN_EXPIRATION_BUFFER + 1
  IN { StartSec * 1000 }
     \cup { expiring + k * DEFAULT_TOKEN_CHECK_INTERVAL :
              k \in 0..(DEFAULT_TOKEN_EXPIRATION_BUFFER \div DEFAULT_TOKEN_CHECK_INTERVAL) }

NextTick(t) == CHOOSE u \in TickTimes : u > t /\ \A v \in TickTimes : v > t => u <= v

\* The interval elapses and the timer, when one is active, fires.
IntervalElapses ==
  /\ \E u \in TickTimes : u > now
  /\ now' = NextTick(now)
  /\ widget' = IF widget.timers # {}
                 THEN runValidationCheck(Enter(widget, "check"), now')
                 ELSE widget
  /\ Followed
  /\ UNCHANGED <<Backend, tokenStore>>

\* A getTokens promise of the host resolves.
HostAnswers == GetTokensSettles(FreshPair) /\ UNCHANGED tokenStore

\* The configs of a host that is logged in.
LiveConfigs == {config \in WidgetConfigs : config.accessToken = FirstToken}

LiveNext ==
  \/ \E config \in LiveConfigs : WidgetInit(config) /\ UNCHANGED tokenStore
  \/ InitResumes /\ UNCHANGED tokenStore
  \/ WidgetSetTokens(FirstToken, FirstIdToken) /\ UNCHANGED tokenStore
  \/ WidgetDestroy /\ UNCHANGED tokenStore
  \/ ForceRefresh /\ UNCHANGED tokenStore
  \/ HostAnswers
  \/ IntervalElapses

\* The event loop runs the timer callback when the interval has elapsed and
\* resumes attemptTokenRefresh when the promise of getTokens has resolved.
WidgetLiveSpec ==
  /\ WidgetSpecInit
  /\ [][LiveNext]_vars
  /\ WF_vars(IntervalElapses)
  /\ WF_vars(HostAnswers)

(***************************************************************************)
(* C39.  Refresh liveness: while validation is running with a getTokens    *)
(* callback and the timer ticking, a stored access token that is expiring  *)
(* is eventually replaced by the fresh token of the host, unless the host  *)
(* stops the validation: the widget does not stay with the old token until *)
(* it has expired and for ever after.                                      *)
(***************************************************************************)
\* Validation is running with a callback and the stored token is expiring.
Expiring ==
  /\ isValidationRunning(widget)
  /\ widget.currentConfig.set
  /\ widget.currentConfig.getTokens
  /\ widget.accessToken = FirstToken
  /\ checkTokenStatus(widget.accessToken, widget.currentConfig.tokenExpirationBuffer, now)
       = "expiring"

C39_RefreshLiveness ==
  Expiring ~> (widget.accessToken = FreshToken \/ ~isValidationRunning(widget))

(***************************************************************************)
(* C40.  Under concurrent refreshes the cache never goes back in time: the *)
(* cached fetchedAt never decreases, so the cached key set is never        *)
(* replaced by the result of a fetch that started earlier than the fetch   *)
(* whose result is cached (fetchedAt is the time at which the fetch of the *)
(* cached key set started).                                                *)
(***************************************************************************)
C40_CacheForwardInTime ==
  [][ jwksCache'.fetchedAt >= jwksCache.fetchedAt ]_vars

====
